---- MODULE Spec2Model ----
(***************************************************************************)
(* Paradex client (src/src/paradex.ts) and the agent built on it           *)
(* (src/src/index.ts).                                                     *)
(*                                                                         *)
(* The specifications share the state below:                               *)
(*   Spec          the exported functions of paradex.ts, called in any     *)
(*                 order by a caller that owns one account object;         *)
(*   SpecBatch     one executeBatchOrders invocation;                      *)
(*   SpecAgent     main() of index.ts: login, the periodic refresh timer,  *)
(*                 the debounced refresh and the open-order action;        *)
(*   SpecQuantums  toQuantums on decimal strings;                          *)
(*   SpecSign      what authenticate and openOrder sign and send;          *)
(*   SpecClock     authenticate at every reading of the clock;             *)
(*   SpecRisk      calculatePositionLimits and analyzeMarket on market     *)
(*                 metrics;                                                *)
(*   SpecCancel    the cancel-order action and its cancelOrder call;       *)
(*   SpecLimiter   the rate limiter and the wrapper around the actions;    *)
(*   SpecCache     getCachedMarkets and the market cache;                  *)
(*   SpecOrder     the open-order action, from the text to the order       *)
(*                 history.                                                *)
(*                                                                         *)
(* An asynchronous function runs without interruption up to its first      *)
(* await (the fetch) and again from the arrival of the response to its     *)
(* return: each is one action.  A timer callback runs when the clock       *)
(* equals its due time; the clock does not pass a pending due time.  Under *)
(* SpecAgent the clock jumps to the next due time, and takes steps of      *)
(* Delay ms while a debounce timer is pending; a response may arrive       *)
(* before or after any of these moves.                                     *)
(***************************************************************************)
EXTENDS Integers, Sequences, FiniteSets, TLC

VARIABLES
    now,                 \* Date.now(), in ms since the process started
    jwtToken,            \* account.jwtToken: <<>> is undefined, <<k>> a token
    calls,               \* every invocation of a paradex.ts function (and of
                         \* the handlers of index.ts), in order
    requests,            \* every HTTP request handed to fetch, in order
    signatures,          \* every invocation of signatureFromTypedData, in order
    batch,               \* the executeBatchOrders invocation
    proc,                \* where main() of index.ts stands
    timers,              \* pending setTimeout timers: records [id, due]
    authRefreshTimeout,  \* the handle debouncedAuthRefresh keeps (0: undefined)
    refreshInterval,     \* the setInterval timer: [armed, due]
    triggers,            \* history: the times debouncedAuthRefresh was called
    armedAt,             \* history: the time setInterval was called
    ticks,               \* history: the steps of Delay ms the clock has taken
    fired,               \* history: the timeouts that ran: [handle, call]
    rateLimiter,         \* the rateLimiter object of index.ts
    marketCache,         \* the marketCache map: key -> [data, timestamp]
    orderStore           \* the orderStore of memory.ts: order id -> data

vars == <<now, jwtToken, calls, requests, signatures, batch, proc, timers,
          authRefreshTimeout, refreshInterval, triggers, armedAt, ticks, fired,
          rateLimiter, marketCache, orderStore>>

(***************************************************************************)
(* Bounds of the model.                                                    *)
(***************************************************************************)
\* invocations a caller makes under Spec
MaxCalls == 2
\* orders in one batch under SpecBatch
MaxBatch == 3
\* invocations under SpecAgent, login and account lookup included
MaxAgentCalls == 5
\* steps of Delay ms the clock takes under SpecAgent, besides its jumps to
\* the next timer
MaxTicks == 2

(***************************************************************************)
(* Strings are sequences of characters, so that Number() parses them.      *)
(***************************************************************************)
Digits == {"0", "1", "2", "3", "4", "5", "6", "7", "8", "9"}

DigitValue(ch) ==
    CASE ch = "1" -> 1 [] ch = "2" -> 2 [] ch = "3" -> 3 [] ch = "4" -> 4
      [] ch = "5" -> 5 [] ch = "6" -> 6 [] ch = "7" -> 7 [] ch = "8" -> 8
      [] ch = "9" -> 9 [] OTHER -> 0

RECURSIVE DecimalValue(_)
DecimalValue(s) ==
    IF s = <<>> THEN 0
    ELSE 10 * DecimalValue(SubSeq(s, 1, Len(s) - 1)) + DigitValue(s[Len(s)])

AllDigits(s) == \A i \in 1..Len(s) : s[i] \in Digits

RECURSIVE StripLeadingZeros(_)
StripLeadingZeros(d) ==
    IF d # <<>> /\ d[1] = "0" THEN StripLeadingZeros(Tail(d)) ELSE d

RECURSIVE StripTrailingZeros(_)
StripTrailingZeros(d) ==
    IF d # <<>> /\ d[Len(d)] = "0"
    THEN StripTrailingZeros(SubSeq(d, 1, Len(d) - 1))
    ELSE d

\* the position of the first "." of s, 0 when it has none
PointAt(s) ==
    IF \E i \in 1..Len(s) : s[i] = "."
    THEN CHOOSE i \in 1..Len(s) : s[i] = "." /\ \A j \in 1..(i - 1) : s[j] # "."
    ELSE 0

IntegerDigits(s) == IF PointAt(s) = 0 THEN s ELSE SubSeq(s, 1, PointAt(s) - 1)

FractionDigits(s) ==
    IF PointAt(s) = 0 THEN <<>> ELSE SubSeq(s, PointAt(s) + 1, Len(s))

\* Number(x) of JavaScript on the strings of this alphabet: undefined gives
\* NaN, "" gives 0, an optionally signed decimal the value val / 10^scale,
\* "Infinity" an infinite value of sign val, anything else NaN.
Number(present, s) ==
    LET neg == s # <<>> /\ s[1] = "-"
        body == IF neg THEN Tail(s) ELSE s
        int == IntegerDigits(body)
        frac == FractionDigits(body)
        mag == DecimalValue(int \o frac)
        nan == [nan |-> TRUE, inf |-> FALSE, val |-> 0, scale |-> 0]
    IN  IF ~present THEN nan
        ELSE IF s = <<>>
        THEN [nan |-> FALSE, inf |-> FALSE, val |-> 0, scale |-> 0]
        ELSE IF body = <<"I", "n", "f", "i", "n", "i", "t", "y">>
        THEN [nan |-> FALSE, inf |-> TRUE, val |-> IF neg THEN -1 ELSE 1,
              scale |-> 0]
        ELSE IF AllDigits(int) /\ AllDigits(frac) /\ int \o frac # <<>>
        THEN [nan |-> FALSE, inf |-> FALSE,
              val |-> IF neg THEN 0 - mag ELSE mag, scale |-> Len(frac)]
        ELSE nan

\* the price strings a caller passes
PriceInputs ==
    { <<"0">>, <<"5">>, <<"-", "5">>, <<"-", "0">>, <<"0", "5">>, <<>> }

Markets == {"BTC-USD-PERP", "ETH-USD-PERP"}

\* orderDetails: hasPrice is FALSE when the price property is absent
Orders ==
    [market : Markets, hasPrice : {TRUE}, price : PriceInputs]
    \cup [market : Markets, hasPrice : {FALSE}, price : {<<>>}]

NoOrder == [market |-> "", hasPrice |-> FALSE, price |-> <<>>]

(***************************************************************************)
(* paradex.ts                                                              *)
(***************************************************************************)
Functions ==
    {"authenticate", "getAccountInfo", "listAvailableMarkets", "getPositions",
     "getOpenOrders", "openOrder", "cancelOrder"}

\* what the exchange and the transport can answer to one request:
\*   ok             2xx with the documented body
\*   empty          2xx with the JSON body {}
\*   http_error     a non-2xx status with a JSON error body
\*   network_error  fetch rejects
Outcomes == {"ok", "empty", "http_error", "network_error"}

Failures == {"http_error", "network_error"}

PriceRejectedIfNegative(order) ==
    LET price == Number(order.hasPrice, order.price)
    IN  ~price.nan /\ price.val < 0

\* openOrder's validation: price = Number(orderDetails.price); price <= 0
PriceRejected(order) ==
    LET price == Number(order.hasPrice, order.price)
    IN  ~price.nan /\ price.val <= 0

Method(fn) ==
    CASE fn \in {"authenticate", "openOrder"} -> "POST"
      [] fn = "cancelOrder" -> "DELETE"
      [] OTHER -> "GET"

Path(fn) ==
    CASE fn = "authenticate" -> "/auth"
      [] fn = "getAccountInfo" -> "/account"
      [] fn = "listAvailableMarkets" -> "/markets"
      [] fn = "getPositions" -> "/positions"
      [] fn \in {"getOpenOrders", "openOrder"} -> "/orders"
      [] OTHER -> "/orders/{id}"

\* the functions that put Authorization: `Bearer ${account.jwtToken}` in
\* their headers
SendsBearer(fn) == fn \notin {"authenticate", "listAvailableMarkets"}

\* the functions that sign before they send
Signs(fn) == fn \in {"authenticate", "openOrder"}

\* the guard a function evaluates before it builds its request: TRUE when
\* it throws there
ThrowsBeforeRequest(fn, order, token) ==
    CASE fn = "getAccountInfo" -> token = <<>>
      [] fn = "openOrder" -> PriceRejected(order)
      [] OTHER -> FALSE

EarlyError(fn) ==
    IF fn = "getAccountInfo"
    THEN "No JWT token available. Please authenticate first."
    ELSE "Order failed: price must be a non-negative non-zero number."

\* fetch(url, {method, headers, body}): one request handed to the transport
Fetch(log, req) == Append(log, req)

Request(id, fn, token) ==
    [call |-> id, method |-> Method(fn), path |-> Path(fn),
     hasAuth |-> SendsBearer(fn), bearer |-> IF SendsBearer(fn) THEN token ELSE <<>>]

Signature(id, fn, t) ==
    [call |-> id,
     kind |-> IF fn = "authenticate" THEN "Request" ELSE "Order",
     timestamp |-> IF fn = "authenticate" THEN t \div 1000 ELSE t]

\* the invocation record after the synchronous part of the function
Started(id, fn, origin, order, token, t) ==
    LET thrown == ThrowsBeforeRequest(fn, order, token)
    IN  [fn |-> fn, origin |-> origin, order |-> order, start |-> t,
         pc |-> IF thrown THEN "threw" ELSE "awaiting",
         outcome |-> IF thrown THEN "none" ELSE "pending",
         ret |-> "none", jwt |-> <<>>, orderId |-> "", status |-> "",
         error |-> IF thrown THEN EarlyError(fn) ELSE ""]

ReturnsWithoutToken(c, id, outcome) ==
    LET base == [c EXCEPT !.outcome = outcome]
    IN  IF c.fn = "authenticate" /\ outcome \in {"ok", "empty"}
        THEN [base EXCEPT !.pc = "returned", !.ret = "jwt",
                          !.jwt = IF outcome = "ok" THEN <<id>> ELSE <<>>]
        ELSE [base EXCEPT !.pc = "threw", !.error = "failed"]

\* what the function does with the response: it returns (ret is what) or
\* throws (error is the message).  The jwt_token of a 2xx /auth response is
\* <<id>>, named after the invocation that received it, so that every
\* response carries its own token.
Settled(c, id, outcome) ==
    LET base == [c EXCEPT !.outcome = outcome]
        Return(what) == [base EXCEPT !.pc = "returned", !.ret = what]
        Throw(msg) == [base EXCEPT !.pc = "threw", !.error = msg]
    IN  CASE c.fn = "authenticate" ->
               CASE outcome = "ok" -> [Return("jwt") EXCEPT !.jwt = <<id>>]
                 [] outcome = "empty" -> Throw("No JWT token received from authentication")
                 [] outcome = "http_error" -> Throw("Authentication failed")
                 [] OTHER -> Throw("fetch failed")
          [] c.fn = "getAccountInfo" ->
               CASE outcome \in {"ok", "empty"} -> Return("data")
                 [] outcome = "http_error" -> Throw("Failed to get account info")
                 [] OTHER -> Throw("fetch failed")
          [] c.fn = "listAvailableMarkets" ->
               CASE outcome = "ok" -> Return("results")
                 [] outcome = "empty" -> Throw("No results found in response")
                 [] outcome = "http_error" -> Throw("HTTP error!")
                 [] OTHER -> Throw("fetch failed")
          [] c.fn \in {"getPositions", "getOpenOrders"} ->
               CASE outcome = "ok" -> Return("results")
                 [] OTHER -> Return("undefined")
          [] c.fn = "openOrder" ->
               CASE outcome = "ok" ->
                      [Return("order") EXCEPT !.orderId = "id", !.status = "NEW"]
                 [] outcome = "empty" ->
                      [Return("order") EXCEPT !.orderId = "filled-immediately",
                                              !.status = "success"]
                 [] outcome = "http_error" -> Throw("Order failed")
                 [] OTHER -> Throw("fetch failed")
          [] OTHER ->
               CASE outcome \in {"ok", "empty"} -> Return("true")
                 [] OTHER -> Return("undefined")

\* what a function leaves behind once its response has been handled: no
\* function fetches again, whatever the outcome (the catch blocks log and
\* rethrow, or log and return)
RetryAfterFailure(log, id, outcome) ==
    IF outcome \in Failures
    THEN Fetch(log, log[CHOOSE k \in 1..Len(log) : log[k].call = id])
    ELSE log

RequestsAfterSettle(log, id, outcome) == log

\* the invocations, signatures and requests as one value, so that several
\* functions can be invoked in one step
Wire == [calls |-> calls, signatures |-> signatures, requests |-> requests]

\* invoking fn: the record, the signature, the request
InvokeOn(w, fn, origin, order, token, t) ==
    LET id == Len(w.calls) + 1
        c == Started(id, fn, origin, order, token, t)
    IN  [calls |-> Append(w.calls, c),
         signatures |-> IF c.pc = "awaiting" /\ Signs(fn)
                        THEN Append(w.signatures, Signature(id, fn, t))
                        ELSE w.signatures,
         requests |-> IF c.pc = "awaiting"
                      THEN Fetch(w.requests, Request(id, fn, token))
                      ELSE w.requests]

SetWire(w) ==
    /\ calls' = w.calls
    /\ signatures' = w.signatures
    /\ requests' = w.requests

Invoke(fn, origin, order) ==
    SetWire(InvokeOn(Wire, fn, origin, order, jwtToken, now))

\* the response to invocation id arrives
Settle(id, outcome) ==
    /\ calls' = [calls EXCEPT ![id] = Settled(calls[id], id, outcome)]
    /\ requests' = RequestsAfterSettle(requests, id, outcome)
    /\ signatures' = signatures

(***************************************************************************)
(* executeBatchOrders                                                      *)
(***************************************************************************)
NoItem == [orderId |-> "", market |-> "", status |-> "", error |-> ""]

NoBatch == [pc |-> "idle", orders |-> <<>>, first |-> 0, slots |-> <<>>]

\* the promise the map callback returns for one order, once openOrder has
\* returned or thrown: the try/catch turns a throw into a FAILED item
RejectOnError(order, c) ==
    IF c.pc = "returned"
    THEN [state |-> "fulfilled",
          item |-> [orderId |-> c.orderId, market |-> order.market,
                    status |-> c.status, error |-> ""]]
    ELSE [state |-> "rejected", item |-> NoItem]

OrderPromise(order, c) ==
    IF c.pc = "returned"
    THEN [state |-> "fulfilled",
          item |-> [orderId |-> c.orderId, market |-> order.market,
                    status |-> c.status, error |-> ""]]
    ELSE [state |-> "fulfilled",
          item |-> [orderId |-> "", market |-> order.market,
                    status |-> "FAILED", error |-> c.error]]

\* Promise.all keeps the value of promise i at index i
CollectInCompletionOrder(slots, i, item) ==
    LET k == CHOOSE j \in 1..Len(slots) :
                 ~slots[j].filled /\ \A h \in 1..(j - 1) : slots[h].filled
    IN  [slots EXCEPT ![k] = [filled |-> TRUE, item |-> item]]

CollectResult(slots, i, item) ==
    [slots EXCEPT ![i] = [filled |-> TRUE, item |-> item]]

\* orders.map(async ...): openOrder is invoked for each order in turn, each
\* up to its fetch
RECURSIVE InvokeAll(_, _, _, _)
InvokeAll(w, orders, token, t) ==
    IF orders = <<>> THEN w
    ELSE InvokeAll(InvokeOn(w, "openOrder", "batch", Head(orders), token, t),
                   Tail(orders), token, t)

\* the promises that are settled among those of the calls first..first+n-1,
\* collected in the order of idxs
RECURSIVE CollectAll(_, _, _, _, _)
CollectAll(slots, idxs, orders, cs, first) ==
    IF idxs = <<>> THEN slots
    ELSE LET i == Head(idxs)
         IN  CollectAll(CollectResult(slots, i,
                            OrderPromise(orders[i], cs[first + i - 1]).item),
                        Tail(idxs), orders, cs, first)

\* Promise.all: rejected as soon as one promise is rejected, fulfilled when
\* every promise is fulfilled
BatchPc(old, slots, rejected) ==
    IF old # "running" THEN old
    ELSE IF rejected THEN "threw"
    ELSE IF \A i \in 1..Len(slots) : slots[i].filled THEN "returned"
    ELSE "running"

RECURSIVE Indexes(_, _)
Indexes(S, n) ==
    IF n = 0 THEN <<>>
    ELSE IF n \in S THEN Append(Indexes(S, n - 1), n) ELSE Indexes(S, n - 1)

\* the rateLimiter object literal, evaluated when index.ts is loaded at t
NewRateLimiter(t) ==
    [requestsThisMinute |-> 0, requestsToday |-> 0,
     lastMinuteTimestamp |-> t, lastDayTimestamp |-> t]

\* new Map(), and the store createMemoryStore() returns: no key yet
NewMap == [key \in {} |-> <<>>]

InitState ==
    /\ now = 0
    /\ jwtToken = <<>>
    /\ calls = <<>>
    /\ requests = <<>>
    /\ signatures = <<>>
    /\ batch = NoBatch
    /\ proc = "boot"
    /\ timers = {}
    /\ authRefreshTimeout = 0
    /\ refreshInterval = [armed |-> FALSE, due |-> 0]
    /\ triggers = <<>>
    /\ armedAt = 0
    /\ ticks = 0
    /\ fired = <<>>
    /\ rateLimiter = NewRateLimiter(now)
    /\ marketCache = NewMap
    /\ orderStore = NewMap

(***************************************************************************)
(* Spec: a caller of the exported functions.  It keeps what authenticate   *)
(* returns in account.jwtToken, as every caller in the repository does.    *)
(***************************************************************************)
Call(fn, order) ==
    /\ Len(calls) < MaxCalls
    /\ Invoke(fn, "caller", order)
    /\ UNCHANGED <<now, jwtToken, batch, proc, timers, authRefreshTimeout,
                   refreshInterval, triggers, armedAt, ticks, fired,
                   rateLimiter, marketCache, orderStore>>

CallPlain == \E fn \in Functions \ {"openOrder"} : Call(fn, NoOrder)

CallOpenOrder == \E order \in Orders : Call("openOrder", order)

Respond ==
    \E id \in 1..Len(calls), outcome \in Outcomes :
        /\ calls[id].pc = "awaiting"
        /\ calls[id].origin = "caller"
        /\ Settle(id, outcome)
        /\ jwtToken' = IF calls'[id].ret = "jwt" THEN calls'[id].jwt ELSE jwtToken
        /\ UNCHANGED <<now, batch, proc, timers, authRefreshTimeout,
                       refreshInterval, triggers, armedAt, ticks, fired,
                       rateLimiter, marketCache, orderStore>>

Init == InitState

Next == CallPlain \/ CallOpenOrder \/ Respond

Spec == Init /\ [][Next]_vars

(***************************************************************************)
(* index.ts: timers and token refresh                                      *)
(***************************************************************************)
\* setInterval(..., 1000 * 60 * 3 - 3000)
RefreshIntervalMs == 177000
\* setTimeout(..., 1000) in debouncedAuthRefresh
DebounceMs == 1000
\* the step the clock takes between events that are not timers
Delay == 500

KeepTimeout(ts, handle) == ts

\* clearTimeout(handle)
ClearTimeout(ts, handle) == {t \in ts : t.id # handle}

\* debouncedAuthRefresh: cancel the timer of the previous call, start one
DebouncedAuthRefresh ==
    LET handle == Len(triggers) + 1
        kept == IF authRefreshTimeout # 0
                THEN ClearTimeout(timers, authRefreshTimeout)
                ELSE timers
    IN  /\ timers' = kept \cup {[id |-> handle, due |-> now + DebounceMs]}
        /\ authRefreshTimeout' = handle
        /\ triggers' = Append(triggers, now)

ClearedOnFailure(old, c) == IF c.pc = "returned" THEN c.jwt ELSE <<>>

\* try { account.jwtToken = await authenticate(...) } catch { log }
TokenAfterRefresh(old, c) == IF c.pc = "returned" THEN c.jwt ELSE old

FiresOnce(iv) == [iv EXCEPT !.armed = FALSE]

\* setInterval re-arms its timer each time the callback has been started
IntervalAfterFire(iv) == [iv EXCEPT !.due = @ + RefreshIntervalMs]

\* the due times of the pending timers
DueTimes ==
    {t.due : t \in timers}
        \cup (IF refreshInterval.armed THEN {refreshInterval.due} ELSE {})

Alive == proc \in {"login", "account", "running"}

(***************************************************************************)
(* What the claims read off the logs.                                      *)
(***************************************************************************)
RequestsOf(id) == {k \in 1..Len(requests) : requests[k].call = id}

SignaturesOf(id) == {k \in 1..Len(signatures) : signatures[k].call = id}

OpenOrderCalls == {id \in 1..Len(calls) : calls[id].fn = "openOrder"}

(***************************************************************************)
(* SpecBatch: a caller that may authenticate and then runs one batch.      *)
(***************************************************************************)
BatchPrices == { <<"0">>, <<"5">> }

BatchOrders == [market : Markets, hasPrice : {TRUE}, price : BatchPrices]

BatchLogin ==
    /\ batch.pc = "idle"
    /\ calls = <<>>
    /\ Invoke("authenticate", "caller", NoOrder)
    /\ UNCHANGED <<now, jwtToken, batch, proc, timers, authRefreshTimeout,
                   refreshInterval, triggers, armedAt, ticks, fired,
                   rateLimiter, marketCache, orderStore>>

BatchLoginRespond ==
    /\ batch.pc = "idle"
    /\ Respond

ExecuteBatchOrders ==
    \E n \in 0..MaxBatch : \E orders \in [1..n -> BatchOrders] :
        LET first == Len(calls) + 1
            w == InvokeAll(Wire, orders, jwtToken, now)
            early == {i \in 1..n : w.calls[first + i - 1].pc = "threw"}
            empty == [i \in 1..n |-> [filled |-> FALSE, item |-> NoItem]]
            slots == CollectAll(empty, Indexes(early, n), orders, w.calls, first)
            rejected == \E i \in early :
                            OrderPromise(orders[i], w.calls[first + i - 1]).state
                                = "rejected"
        IN  /\ batch.pc = "idle"
            /\ \A id \in 1..Len(calls) : calls[id].pc # "awaiting"
            /\ SetWire(w)
            /\ batch' = [pc |-> BatchPc("running", slots, rejected),
                         orders |-> orders, first |-> first, slots |-> slots]
            /\ UNCHANGED <<now, jwtToken, proc, timers, authRefreshTimeout,
                           refreshInterval, triggers, armedAt, ticks, fired,
                           rateLimiter, marketCache, orderStore>>

BatchRespond ==
    \E i \in 1..Len(batch.orders), outcome \in Outcomes :
        LET id == batch.first + i - 1
            p == OrderPromise(batch.orders[i], Settled(calls[id], id, outcome))
            slots == CollectResult(batch.slots, i, p.item)
        IN  /\ calls[id].pc = "awaiting"
            /\ Settle(id, outcome)
            /\ batch' = [batch EXCEPT
                            !.slots = IF batch.pc = "running" THEN slots ELSE @,
                            !.pc = BatchPc(@, slots, p.state = "rejected")]
            /\ UNCHANGED <<now, jwtToken, proc, timers, authRefreshTimeout,
                           refreshInterval, triggers, armedAt, ticks, fired,
                           rateLimiter, marketCache, orderStore>>

NextBatch == BatchLogin \/ BatchLoginRespond \/ ExecuteBatchOrders \/ BatchRespond

SpecBatch == Init /\ [][NextBatch]_vars

(***************************************************************************)
(* SpecAgent: main() of index.ts.                                          *)
(***************************************************************************)
AgentPrices == { <<"0">>, <<"5">> }

\* the orderDetails the open-order handler builds: a price for LIMIT only
AgentOrders == [market : {"BTC-USD-PERP"}, hasPrice : {TRUE}, price : AgentPrices]

CallsFrom(origins) == {id \in 1..Len(calls) : calls[id].origin \in origins}

Awaiting(origins) == {id \in CallsFrom(origins) : calls[id].pc = "awaiting"}

\* main: paradexLogin starts authenticate
Login ==
    /\ proc = "boot"
    /\ Invoke("authenticate", "login", NoOrder)
    /\ proc' = "login"
    /\ UNCHANGED <<now, jwtToken, batch, timers, authRefreshTimeout,
                   refreshInterval, triggers, armedAt, ticks, fired,
                   rateLimiter, marketCache, orderStore>>

\* the login response: on success the token is kept, setInterval is called
\* and getAccountInfo is invoked; on failure main rejects and the process
\* exits
LoginRespond ==
    \E id \in Awaiting({"login"}), outcome \in Outcomes :
        LET c == Settled(calls[id], id, outcome)
            w == [calls |-> [calls EXCEPT ![id] = c],
                  signatures |-> signatures,
                  requests |-> RequestsAfterSettle(requests, id, outcome)]
        IN  IF c.pc = "returned"
            THEN /\ jwtToken' = c.jwt
                 /\ refreshInterval' = [armed |-> TRUE, due |-> now + RefreshIntervalMs]
                 /\ armedAt' = now
                 /\ SetWire(InvokeOn(w, "getAccountInfo", "main", NoOrder, c.jwt, now))
                 /\ proc' = "account"
                 /\ UNCHANGED <<now, batch, timers, authRefreshTimeout, triggers, ticks,
                                fired,
                                rateLimiter, marketCache, orderStore>>
            ELSE /\ SetWire(w)
                 /\ proc' = "exited"
                 /\ UNCHANGED <<now, jwtToken, batch, timers, authRefreshTimeout,
                                refreshInterval, triggers, armedAt, ticks, fired,
                                rateLimiter, marketCache, orderStore>>

\* cleanup(): clearInterval, process.exit
Cleanup ==
    /\ refreshInterval' = [refreshInterval EXCEPT !.armed = FALSE]
    /\ timers' = {}
    /\ proc' = "exited"

\* the account lookup of main: the agent starts, or cleanup() runs
AccountRespond ==
    \E id \in Awaiting({"main"}), outcome \in Outcomes :
        /\ Alive
        /\ Settle(id, outcome)
        /\ IF calls'[id].pc = "returned"
           THEN proc' = "running" /\ UNCHANGED <<refreshInterval, timers>>
           ELSE Cleanup
        /\ UNCHANGED <<now, jwtToken, batch, authRefreshTimeout, triggers,
                       armedAt, ticks, fired,
                       rateLimiter, marketCache, orderStore>>

\* SIGTERM or SIGINT: cleanup()
Signal ==
    /\ proc \in {"account", "running"}
    /\ Cleanup
    /\ UNCHANGED <<now, jwtToken, calls, requests, signatures, batch,
                   authRefreshTimeout, triggers, armedAt, ticks, fired,
                   rateLimiter, marketCache, orderStore>>

\* the setInterval callback starts authenticate
IntervalFire ==
    /\ Alive
    /\ refreshInterval.armed
    /\ refreshInterval.due = now
    /\ Len(calls) < MaxAgentCalls
    /\ Invoke("authenticate", "interval", NoOrder)
    /\ refreshInterval' = IntervalAfterFire(refreshInterval)
    /\ UNCHANGED <<now, jwtToken, batch, proc, timers, authRefreshTimeout,
                   triggers, armedAt, ticks, fired,
                   rateLimiter, marketCache, orderStore>>

\* the setTimeout callback of debouncedAuthRefresh starts authenticate
DebounceFire ==
    \E t \in timers :
        /\ Alive
        /\ t.due = now
        /\ Len(calls) < MaxAgentCalls
        /\ timers' = timers \ {t}
        /\ Invoke("authenticate", "debounce", NoOrder)
        /\ fired' = Append(fired, [handle |-> t.id, call |-> Len(calls) + 1])
        /\ UNCHANGED <<now, jwtToken, batch, proc, authRefreshTimeout,
                       refreshInterval, triggers, armedAt, ticks,
                       rateLimiter, marketCache, orderStore>>

\* the response to a refresh started by either timer
RefreshRespond ==
    \E id \in Awaiting({"interval", "debounce"}), outcome \in Outcomes :
        /\ Alive
        /\ Settle(id, outcome)
        /\ jwtToken' = TokenAfterRefresh(jwtToken, calls'[id])
        /\ UNCHANGED <<now, batch, proc, timers, authRefreshTimeout,
                       refreshInterval, triggers, armedAt, ticks, fired,
                       rateLimiter, marketCache, orderStore>>

\* the open-order handler, from its call of openOrder
OpenOrderAction ==
    \E order \in AgentOrders :
        /\ proc = "running"
        /\ Len(calls) < MaxAgentCalls
        /\ Invoke("openOrder", "action", order)
        /\ UNCHANGED <<now, jwtToken, batch, proc, timers, authRefreshTimeout,
                       refreshInterval, triggers, armedAt, ticks, fired,
                       rateLimiter, marketCache, orderStore>>

\* openOrder has answered: after a success the handler calls
\* debouncedAuthRefresh
OrderRespond ==
    \E id \in Awaiting({"action"}), outcome \in Outcomes :
        /\ Alive
        /\ Settle(id, outcome)
        /\ IF calls'[id].pc = "returned"
           THEN DebouncedAuthRefresh
           ELSE UNCHANGED <<timers, authRefreshTimeout, triggers>>
        /\ UNCHANGED <<now, jwtToken, batch, proc, refreshInterval, armedAt, ticks, fired,
                       rateLimiter, marketCache, orderStore>>

\* the clock moves by Delay while a timeout is pending
Advance ==
    /\ Alive
    /\ ticks < MaxTicks
    /\ timers # {}
    /\ \A due \in DueTimes : now + Delay <= due
    /\ now' = now + Delay
    /\ ticks' = ticks + 1
    /\ UNCHANGED <<jwtToken, calls, requests, signatures, batch, proc, timers,
                   authRefreshTimeout, refreshInterval, triggers, armedAt, fired,
                   rateLimiter, marketCache, orderStore>>

\* the clock moves to the next due time
Idle ==
    /\ Alive
    /\ DueTimes # {}
    /\ \A due \in DueTimes : now < due
    /\ now' = CHOOSE due \in DueTimes : \A other \in DueTimes : due <= other
    /\ UNCHANGED <<jwtToken, calls, requests, signatures, batch, proc, timers,
                   authRefreshTimeout, refreshInterval, triggers, armedAt, ticks, fired,
                   rateLimiter, marketCache, orderStore>>

NextAgent ==
    \/ Login \/ LoginRespond \/ AccountRespond \/ Signal
    \/ IntervalFire \/ DebounceFire \/ RefreshRespond
    \/ OpenOrderAction \/ OrderRespond
    \/ Advance \/ Idle

SpecAgent == Init /\ [][NextAgent]_vars

(***************************************************************************)
(* toQuantums (paradex.ts) on bignumber.js.  A BigNumber is a sign s, a    *)
(* coefficient c (its digits, without leading or trailing zeros; <<"0">>   *)
(* for zero, <<>> for an infinite value) and the exponent e of its first   *)
(* digit: the value is s * c[1].c[2]c[3]... * 10^e.  The library runs with *)
(* its defaults, the code calls BigNumber.config nowhere.                  *)
(***************************************************************************)
NaN == [nan |-> TRUE, s |-> 1, c |-> <<>>, e |-> 0]

InfinityString == <<"I", "n", "f", "i", "n", "i", "t", "y">>

\* BigNumber(amount) of a string: -?(\d+(\.\d*)?|\.\d+) is a number,
\* -?Infinity is infinite, anything else over this alphabet is NaN
BigNumber(amount) ==
    LET neg == amount # <<>> /\ amount[1] = "-"
        body == IF neg THEN Tail(amount) ELSE amount
        int == IntegerDigits(body)
        all == int \o FractionDigits(body)
        lead == StripLeadingZeros(all)
        c == StripTrailingZeros(lead)
        s == IF neg THEN -1 ELSE 1
    IN  IF body = InfinityString
        THEN [nan |-> FALSE, s |-> s, c |-> <<>>, e |-> 0]
        ELSE IF ~(AllDigits(int) /\ AllDigits(FractionDigits(body)) /\ all # <<>>)
        THEN NaN
        ELSE IF c = <<>>
        THEN [nan |-> FALSE, s |-> s, c |-> <<"0">>, e |-> 0]
        ELSE [nan |-> FALSE, s |-> s, c |-> c,
              e |-> Len(int) - 1 - (Len(all) - Len(lead))]

\* new BigNumber(10).pow(precision), precision a natural number
PowerOfTen(precision) == [nan |-> FALSE, s |-> 1, c |-> <<"1">>, e |-> precision]

\* x.multipliedBy(y) for y a power of ten: the digits stay, the point moves
MultipliedBy(x, y) ==
    IF x.nan \/ y.nan THEN NaN
    ELSE IF x.c \in {<<"0">>, <<>>} THEN [x EXCEPT !.s = x.s * y.s]
    ELSE [x EXCEPT !.s = x.s * y.s, !.e = x.e + y.e]

\* the digit string d plus one
RECURSIVE Increment(_)
Increment(d) ==
    IF d = <<>> THEN <<"1">>
    ELSE LET front == SubSeq(d, 1, Len(d) - 1)
             last == DigitValue(d[Len(d)])
         IN  IF last = 9 THEN Increment(front) \o <<"0">>
             ELSE front \o <<CHOOSE ch \in Digits : DigitValue(ch) = last + 1>>

\* x.integerValue(BigNumber.ROUND_FLOOR): the digits after the point are
\* dropped, and a negative value that lost a digit moves one further from
\* zero
IntegerValue(x) ==
    IF x.nan \/ x.c \in {<<"0">>, <<>>} THEN x
    ELSE IF x.e < 0
    THEN IF x.s < 0 THEN [x EXCEPT !.c = <<"1">>, !.e = 0]
         ELSE [x EXCEPT !.c = <<"0">>, !.e = 0]
    ELSE IF Len(x.c) <= x.e + 1 THEN x
    ELSE LET kept == SubSeq(x.c, 1, x.e + 1)
             up == Increment(kept)
         IN  IF x.s < 0
             THEN [x EXCEPT !.c = StripTrailingZeros(up), !.e = Len(up) - 1]
             ELSE [x EXCEPT !.c = StripTrailingZeros(kept)]

\* the decimal digits of a natural number
RECURSIVE DecimalString(_)
DecimalString(n) ==
    LET last == <<CHOOSE ch \in Digits : DigitValue(ch) = n % 10>>
    IN  IF n < 10 THEN last ELSE DecimalString(n \div 10) \o last

Zeros(n) == [i \in 1..n |-> "0"]

\* EXPONENTIAL_AT of bignumber.js, by default: toString() writes a value of
\* exponent TO_EXP_POS or more in exponential notation
TO_EXP_POS == 21

\* x.toString() of a value of exponent e >= 0 (integerValue returns no
\* other): the sign is written for a non-zero value only
toString(x) ==
    LET sign == IF x.s < 0 /\ x.c # <<"0">> THEN <<"-">> ELSE <<>>
    IN  IF x.nan THEN <<"N", "a", "N">>
        ELSE IF x.c = <<>> THEN sign \o InfinityString
        ELSE IF x.e >= TO_EXP_POS
        THEN sign \o <<x.c[1]>>
             \o (IF Len(x.c) > 1 THEN <<".">> \o Tail(x.c) ELSE <<>>)
             \o <<"e", "+">> \o DecimalString(x.e)
        ELSE IF Len(x.c) <= x.e + 1
        THEN sign \o x.c \o Zeros(x.e + 1 - Len(x.c))
        ELSE sign \o SubSeq(x.c, 1, x.e + 1) \o <<".">>
             \o SubSeq(x.c, x.e + 2, Len(x.c))

toQuantums(amount, precision) ==
    toString(IntegerValue(MultipliedBy(BigNumber(amount), PowerOfTen(precision))))

(***************************************************************************)
(* SpecQuantums: toQuantums applied to the amounts and precisions below.   *)
(***************************************************************************)
MaxQuantumCalls == 2

\* "0", "-0", "5", "-5", "1.5", "-1.5", "0.05", "-0.05", "-9.5",
\* "1.23456789", "1.234567891", "-0.999999999", "10000000000000", and
\* the malformed "abc", "" and "1.2.3"
Amounts ==
    { <<"0">>, <<"-", "0">>, <<"5">>, <<"-", "5">>,
      <<"1", ".", "5">>, <<"-", "1", ".", "5">>,
      <<"0", ".", "0", "5">>, <<"-", "0", ".", "0", "5">>,
      <<"-", "9", ".", "5">>,
      <<"1", ".", "2", "3", "4", "5", "6", "7", "8", "9">>,
      <<"1", ".", "2", "3", "4", "5", "6", "7", "8", "9", "1">>,
      <<"-", "0", ".", "9", "9", "9", "9", "9", "9", "9", "9", "9">>,
      <<"1">> \o Zeros(13),
      <<"a", "b", "c">>, <<>>, <<"1", ".", "2", ".", "3">> }

Precisions == {0, 1, 8, 21}

CallToQuantums ==
    /\ Len(calls) < MaxQuantumCalls
    /\ \E amount \in Amounts, precision \in Precisions :
          calls' = Append(calls, [fn |-> "toQuantums", amount |-> amount,
                                  precision |-> precision, pc |-> "returned",
                                  ret |-> toQuantums(amount, precision)])
    /\ UNCHANGED <<now, jwtToken, requests, signatures, batch, proc, timers,
                   authRefreshTimeout, refreshInterval, triggers, armedAt,
                   ticks, fired,
                   rateLimiter, marketCache, orderStore>>

NextQuantums == CallToQuantums

SpecQuantums == Init /\ [][NextQuantums]_vars

(***************************************************************************)
(* What authenticate and openOrder sign and send (paradex.ts).             *)
(*                                                                         *)
(* starknet.js is modelled symbolically: encodeShortString(str) is the     *)
(* term <<"shortString", str>>, getMessageHash(typedData, address) the     *)
(* term of its two arguments (no two inputs share a hash), and sign(hash,  *)
(* key) the term of the hash and the key.                                  *)
(***************************************************************************)
DOMAIN_TYPES ==
    [StarkNetDomain |-> << [name |-> "name", type |-> "felt"],
                           [name |-> "chainId", type |-> "felt"],
                           [name |-> "version", type |-> "felt"] >>]

SEVEN_DAYS_MS == 7 * 24 * 60 * 60 * 1000

encodeShortString(str) == <<"shortString", str>>

RoundedTimestamps(t) ==
    [timestamp |-> (t + 500) \div 1000,
     expiration |-> (t + SEVEN_DAYS_MS + 500) \div 1000]

\* generateTimestamps() when new Date() reads t
generateTimestamps(t) ==
    [timestamp |-> t \div 1000, expiration |-> (t + SEVEN_DAYS_MS) \div 1000]

buildParadexDomain(starknetChainId) ==
    [name |-> "Paradex", chainId |-> starknetChainId, version |-> "1"]

BuildAuthTypedDataBodyLast(message, starknetChainId) ==
    [domain |-> buildParadexDomain(starknetChainId),
     primaryType |-> "Request",
     types |-> ("StarkNetDomain" :> DOMAIN_TYPES.StarkNetDomain)
               @@ ("Request" :> << [name |-> "method", type |-> "felt"],
                                   [name |-> "path", type |-> "felt"],
                                   [name |-> "timestamp", type |-> "felt"],
                                   [name |-> "expiration", type |-> "felt"],
                                   [name |-> "body", type |-> "felt"] >>),
     message |-> message]

buildAuthTypedData(message, starknetChainId) ==
    [domain |-> buildParadexDomain(starknetChainId),
     primaryType |-> "Request",
     types |-> ("StarkNetDomain" :> DOMAIN_TYPES.StarkNetDomain)
               @@ ("Request" :> << [name |-> "method", type |-> "felt"],
                                   [name |-> "path", type |-> "felt"],
                                   [name |-> "body", type |-> "felt"],
                                   [name |-> "timestamp", type |-> "felt"],
                                   [name |-> "expiration", type |-> "felt"] >>),
     message |-> message]

buildOrderTypedData(message, starknetChainId) ==
    [domain |-> buildParadexDomain(starknetChainId),
     primaryType |-> "Order",
     types |-> ("StarkNetDomain" :> DOMAIN_TYPES.StarkNetDomain)
               @@ ("Order" :> << [name |-> "timestamp", type |-> "felt"],
                                 [name |-> "market", type |-> "felt"],
                                 [name |-> "side", type |-> "felt"],
                                 [name |-> "orderType", type |-> "felt"],
                                 [name |-> "size", type |-> "felt"],
                                 [name |-> "price", type |-> "felt"] >>),
     message |-> message]

\* starkTypedData.getMessageHash(typedData, account.address)
getMessageHash(typedData, address) ==
    [typedData |-> typedData, address |-> address]

\* ec.starkCurve.sign(msgHash, account.privateKey), serialized
signatureFromTypedData(account, typedData) ==
    [hash |-> getMessageHash(typedData, account.address),
     key |-> account.privateKey]

\* the message signAuthRequest signs at time t
AuthRequest(t) ==
    [method |-> "POST", path |-> "/v1/auth", body |-> "",
     timestamp |-> generateTimestamps(t).timestamp,
     expiration |-> generateTimestamps(t).expiration]

OrderMessageWithoutDefault(orderDetails, timestamp) ==
    [timestamp |-> timestamp,
     market |-> encodeShortString(orderDetails.market),
     side |-> IF orderDetails.side = "BUY" THEN "1" ELSE "2",
     orderType |-> encodeShortString(orderDetails.type),
     size |-> toQuantums(orderDetails.size, 8),
     price |-> toQuantums(orderDetails.price, 8)]

\* the message signOrder signs
OrderMessage(orderDetails, timestamp) ==
    [timestamp |-> timestamp,
     market |-> encodeShortString(orderDetails.market),
     side |-> IF orderDetails.side = "BUY" THEN "1" ELSE "2",
     orderType |-> encodeShortString(orderDetails.type),
     size |-> toQuantums(orderDetails.size, 8),
     price |-> toQuantums(IF orderDetails.hasPrice THEN orderDetails.price
                          ELSE <<"0">>, 8)]

\* an optional "-" and digits
IsDecimalInteger(s) ==
    LET body == IF s # <<>> /\ s[1] = "-" THEN Tail(s) ELSE s
    IN  body # <<>> /\ AllDigits(body)

\* a felt given as a string is a number when it is a decimal integer; what
\* getMessageHash does with another string ("NaN", "Infinity", "1e+21")
\* depends on the starknet.js release: it hashes the string as a short
\* string, or it throws
NumericFelts(message) ==
    IsDecimalInteger(message.size) /\ IsDecimalInteger(message.price)

signAuthRequest(config, account, t) ==
    LET request == AuthRequest(t)
        typedData == buildAuthTypedData(request, config.starknet.chainId)
    IN  [signature |-> signatureFromTypedData(account, typedData),
         timestamp |-> request.timestamp, expiration |-> request.expiration,
         message |-> request, typedData |-> typedData]

signOrder(config, account, orderDetails, timestamp) ==
    LET message == OrderMessage(orderDetails, timestamp)
        typedData == buildOrderTypedData(message, config.starknet.chainId)
    IN  [signature |-> signatureFromTypedData(account, typedData),
         message |-> message, typedData |-> typedData]

AuthHeadersExpiringAtOnce(account, signed) ==
    ("Accept" :> <<"application/json">>)
    @@ ("PARADEX-STARKNET-ACCOUNT" :> account.address)
    @@ ("PARADEX-STARKNET-SIGNATURE" :> signed.signature)
    @@ ("PARADEX-TIMESTAMP" :> DecimalString(signed.timestamp))
    @@ ("PARADEX-SIGNATURE-EXPIRATION" :> DecimalString(signed.timestamp))
    @@ ("Content-Type" :> <<"application/json">>)

AuthHeadersNamingTheKey(account, signed) ==
    ("Accept" :> <<"application/json">>)
    @@ ("PARADEX-STARKNET-ACCOUNT" :> account.privateKey)
    @@ ("PARADEX-STARKNET-SIGNATURE" :> signed.signature)
    @@ ("PARADEX-TIMESTAMP" :> DecimalString(signed.timestamp))
    @@ ("PARADEX-SIGNATURE-EXPIRATION" :> DecimalString(signed.expiration))
    @@ ("Content-Type" :> <<"application/json">>)

\* the headers of authenticate: the numbers go through toString()
AuthHeaders(account, signed) ==
    ("Accept" :> <<"application/json">>)
    @@ ("PARADEX-STARKNET-ACCOUNT" :> account.address)
    @@ ("PARADEX-STARKNET-SIGNATURE" :> signed.signature)
    @@ ("PARADEX-TIMESTAMP" :> DecimalString(signed.timestamp))
    @@ ("PARADEX-SIGNATURE-EXPIRATION" :> DecimalString(signed.expiration))
    @@ ("Content-Type" :> <<"application/json">>)

OrderHeaders(token) ==
    ("Accept" :> <<"application/json">>)
    @@ ("Authorization" :> <<"Bearer", token>>)
    @@ ("Content-Type" :> <<"application/json">>)

OrderBodyInSeconds(orderDetails, signature, timestamp) ==
    [signature |-> signature, signature_timestamp |-> timestamp \div 1000]
    @@ orderDetails

\* {...orderDetails, signature, signature_timestamp: timestamp}; the
\* price of an order with hasPrice FALSE is not in the JSON text
OrderBody(orderDetails, signature, timestamp) ==
    [signature |-> signature, signature_timestamp |-> timestamp]
    @@ orderDetails

(***************************************************************************)
(* SpecSign: authenticate and openOrder from the call to the fetch, for    *)
(* one configuration and one account, while the clock runs.                *)
(***************************************************************************)
\* invocations under SpecSign
MaxSignCalls == 2
\* steps the clock takes under SpecSign
MaxSignTicks == 2

\* the ms that pass in one step of the clock
ClockStep == 600

Configs ==
    [apiBaseUrl : {"https://api.testnet.paradex.trade/v1"},
     starknet : [chainId : {encodeShortString("PRIVATE_SN_POTC_SEPOLIA"),
                            encodeShortString("PRIVATE_SN_PARACLEAR_MAINNET")}]]

Accounts ==
    { [address |-> "0xA", privateKey |-> "key of 0xA"],
      [address |-> "0xB", privateKey |-> "key of 0xB"] }

OrderDetails(type, side, size, hasPrice, price) ==
    [market |-> "BTC-USD-PERP", type |-> type, side |-> side, size |-> size,
     hasPrice |-> hasPrice, price |-> price]

Half == <<"0", ".", "5">>

Dust == <<"0", ".", "0", "0", "0", "0", "0", "0", "0", "1", "5">>

\* the orders a caller passes under SpecSign
SignOrders ==
    { OrderDetails("LIMIT", "BUY", Half, TRUE, <<"5">>),
      OrderDetails("LIMIT", "SELL", Dust, TRUE, <<"1", ".", "5">>),
      OrderDetails("LIMIT", "HOLD", Half, TRUE, <<"5">>),
      OrderDetails("MARKET", "BUY", Half, FALSE, <<>>),
      OrderDetails("MARKET", "SELL", Dust, FALSE, <<>>),
      OrderDetails("LIMIT", "SELL", Half, TRUE, InfinityString),
      OrderDetails("LIMIT", "BUY", Half, TRUE, <<"a", "b", "c">>),
      OrderDetails("LIMIT", "BUY", Half, TRUE, <<"0">>) }

\* main() builds one config and one account and passes them to every call
SameProcess(config, account) ==
    IF calls = <<>> THEN TRUE
    ELSE config = calls[1].config /\ account = calls[1].account

SignCall(fn, config, account, orderDetails, pc, error) ==
    [fn |-> fn, config |-> config, account |-> account,
     order |-> orderDetails, start |-> now, pc |-> pc, error |-> error]

\* authenticate(config, account), up to its fetch
SignAuth ==
    /\ Len(calls) < MaxSignCalls
    /\ \E config \in Configs, account \in Accounts :
          LET id == Len(calls) + 1
              signed == signAuthRequest(config, account, now)
          IN  /\ SameProcess(config, account)
              /\ calls' = Append(calls, SignCall("authenticate", config,
                                                 account, NoOrder, "awaiting", ""))
              /\ signatures' =
                    Append(signatures,
                           [call |-> id, kind |-> "Request",
                            message |-> signed.message,
                            typedData |-> signed.typedData,
                            address |-> account.address, threw |-> FALSE,
                            signature |-> signed.signature])
              /\ requests' =
                    Fetch(requests,
                          [call |-> id, method |-> "POST", path |-> "/auth",
                           headers |-> AuthHeaders(account, signed),
                           body |-> "{}"])
    /\ UNCHANGED <<now, jwtToken, batch, proc, timers, authRefreshTimeout,
                   refreshInterval, triggers, armedAt, ticks, fired,
                   rateLimiter, marketCache, orderStore>>

\* openOrder(config, account, orderDetails), up to its fetch; hashed says
\* whether getMessageHash returns
SignOrder ==
    /\ Len(calls) < MaxSignCalls
    /\ \E config \in Configs, account \in Accounts,
          orderDetails \in SignOrders, hashed \in BOOLEAN :
          LET id == Len(calls) + 1
              timestamp == now
              signed == signOrder(config, account, orderDetails, timestamp)
              Record(pc, error) ==
                  SignCall("openOrder", config, account, orderDetails, pc, error)
              Signed(threw) ==
                  [call |-> id, kind |-> "Order", message |-> signed.message,
                   typedData |-> signed.typedData,
                   address |-> account.address, threw |-> threw,
                   signature |-> IF threw THEN <<>> ELSE signed.signature]
          IN  /\ SameProcess(config, account)
              /\ IF PriceRejected(orderDetails) \/ NumericFelts(signed.message)
                 THEN hashed ELSE TRUE
              /\ IF PriceRejected(orderDetails)
                 THEN /\ calls' = Append(calls, Record("threw", EarlyError("openOrder")))
                      /\ UNCHANGED <<signatures, requests>>
                 ELSE IF ~hashed
                 THEN /\ calls' = Append(calls, Record("threw", "Invalid BigNumberish"))
                      /\ signatures' = Append(signatures, Signed(TRUE))
                      /\ UNCHANGED requests
                 ELSE /\ calls' = Append(calls, Record("awaiting", ""))
                      /\ signatures' = Append(signatures, Signed(FALSE))
                      /\ requests' =
                            Fetch(requests,
                                  [call |-> id, method |-> "POST",
                                   path |-> "/orders",
                                   headers |-> OrderHeaders(jwtToken),
                                   body |-> OrderBody(orderDetails,
                                                      signed.signature,
                                                      timestamp)])
    /\ UNCHANGED <<now, jwtToken, batch, proc, timers, authRefreshTimeout,
                   refreshInterval, triggers, armedAt, ticks, fired,
                   rateLimiter, marketCache, orderStore>>

\* time passes
Tick ==
    /\ ticks < MaxSignTicks
    /\ now' = now + ClockStep
    /\ ticks' = ticks + 1
    /\ UNCHANGED <<jwtToken, calls, requests, signatures, batch, proc, timers,
                   authRefreshTimeout, refreshInterval, triggers, armedAt,
                   fired,
                   rateLimiter, marketCache, orderStore>>

NextSign == SignAuth \/ SignOrder \/ Tick

SpecSign == Init /\ [][NextSign]_vars

(***************************************************************************)
(* SpecClock: authenticate, up to its fetch, at every reading of the clock *)
(* from 0 to MaxNow.                                                       *)
(***************************************************************************)
MaxNow == 2500

InitClock ==
    /\ now \in 0..MaxNow
    /\ jwtToken = <<>>
    /\ calls = <<>>
    /\ requests = <<>>
    /\ signatures = <<>>
    /\ batch = NoBatch
    /\ proc = "boot"
    /\ timers = {}
    /\ authRefreshTimeout = 0
    /\ refreshInterval = [armed |-> FALSE, due |-> 0]
    /\ triggers = <<>>
    /\ armedAt = 0
    /\ ticks = 0
    /\ fired = <<>>
    /\ rateLimiter = NewRateLimiter(now)
    /\ marketCache = NewMap
    /\ orderStore = NewMap

NextClock == SignAuth

SpecClock == InitClock /\ [][NextClock]_vars

(***************************************************************************)
(* The risk engine: calculatePositionLimits and the scoring of             *)
(* analyzeMarket (paradex.ts).  The code computes in JavaScript doubles;   *)
(* the model computes exactly, in fixed point: a ratio (volatility,        *)
(* momentum, funding rate, volume trend, leverage, confidence) and an      *)
(* amount of money are integers that count 1/10000, an account value is a  *)
(* whole number.  NaN and the infinities are left out.                     *)
(***************************************************************************)
\* the fixed-point number n / d
Ratio(n, d) == (n * 10000) \div d

\* the fixed-point product of a and the ratio b, taken in two parts so
\* that no intermediate value leaves the 32-bit integers
Times(a, b) == (a \div 10000) * b + ((a % 10000) * b) \div 10000

Abs(x) == IF x < 0 THEN 0 - x ELSE x

MathMin(a, b) == IF a <= b THEN a ELSE b

LeverageClampedAtZero(volatility) ==
    LET baseMaxLeverage == Ratio(20, 1)
        adjusted == MathMin(baseMaxLeverage,
                            Times(baseMaxLeverage, Ratio(1, 1) - volatility * 5))
    IN  IF adjusted < 0 THEN 0 ELSE adjusted

\* Math.min(baseMaxLeverage, baseMaxLeverage * (1 - volatility * 5))
VolatilityAdjustedLeverage(volatility) ==
    LET baseMaxLeverage == Ratio(20, 1)
    IN  MathMin(baseMaxLeverage,
                Times(baseMaxLeverage, Ratio(1, 1) - volatility * 5))

RiskBandWithClosedThresholds(accountValue, volatility) ==
    IF volatility <= Ratio(2, 100)
    THEN [level |-> "LOW", maxPositionSize |-> accountValue * Ratio(5, 10),
          stopLossPercent |-> 2]
    ELSE IF volatility <= Ratio(5, 100)
    THEN [level |-> "MEDIUM", maxPositionSize |-> accountValue * Ratio(3, 10),
          stopLossPercent |-> 5]
    ELSE [level |-> "HIGH", maxPositionSize |-> accountValue * Ratio(1, 10),
          stopLossPercent |-> 10]

\* the if / else if / else that picks the risk band
RiskBand(accountValue, volatility) ==
    IF volatility < Ratio(2, 100)
    THEN [level |-> "LOW", maxPositionSize |-> accountValue * Ratio(5, 10),
          stopLossPercent |-> 2]
    ELSE IF volatility < Ratio(5, 100)
    THEN [level |-> "MEDIUM", maxPositionSize |-> accountValue * Ratio(3, 10),
          stopLossPercent |-> 5]
    ELSE [level |-> "HIGH", maxPositionSize |-> accountValue * Ratio(1, 10),
          stopLossPercent |-> 10]

RecommendedFromBandOnly(riskBand, maxPositionValue) == riskBand.maxPositionSize

\* Math.min(riskBand.maxPositionSize, maxPositionValue * 0.25)
RecommendedPositionSize(riskBand, maxPositionValue) ==
    MathMin(riskBand.maxPositionSize, Times(maxPositionValue, Ratio(25, 100)))

calculatePositionLimits(accountValue, volatility) ==
    LET volatilityAdjustedLeverage == VolatilityAdjustedLeverage(volatility)
        maxPositionValue == accountValue * volatilityAdjustedLeverage
        riskBand == RiskBand(accountValue, volatility)
    IN  [maxLeverage |-> volatilityAdjustedLeverage,
         maxPositionValue |-> maxPositionValue,
         recommendedPositionSize |->
             RecommendedPositionSize(riskBand, maxPositionValue),
         riskBand |-> riskBand]

\* the recommendation and the confidence analyzeMarket starts from
BaseScore(momentum, fundingRate) ==
    IF momentum > Ratio(2, 100) /\ fundingRate < Ratio(1, 1000)
    THEN [recommendation |-> "BUY",
          confidence |-> MathMin(Ratio(8, 10), Abs(momentum) * 5)]
    ELSE IF momentum < 0 - Ratio(2, 100) /\ fundingRate > Ratio(1, 1000)
    THEN [recommendation |-> "SELL",
          confidence |-> MathMin(Ratio(8, 10), Abs(momentum) * 5)]
    ELSE [recommendation |-> "HOLD", confidence |-> Ratio(5, 10)]

AdjustedScalingFirst(confidence, volumeTrend, volatility, level) ==
    LET scaled == IF level = "HIGH" THEN Times(confidence, Ratio(8, 10))
                  ELSE confidence
        volume == IF volumeTrend > Ratio(1, 10) THEN scaled + Ratio(1, 10)
                  ELSE scaled
    IN  IF volatility > Ratio(2, 100) THEN volume - Ratio(2, 10) ELSE volume

\* the three adjustments of the confidence, in the order of the code
Adjusted(confidence, volumeTrend, volatility, level) ==
    LET volume == IF volumeTrend > Ratio(1, 10) THEN confidence + Ratio(1, 10)
                  ELSE confidence
        volatile == IF volatility > Ratio(2, 100) THEN volume - Ratio(2, 10)
                    ELSE volume
    IN  IF level = "HIGH" THEN Times(volatile, Ratio(8, 10)) ELSE volatile

\* Number(x.toFixed(2)): the nearest multiple of 0.01.  Which neighbour a
\* double halfway between two of them (in decimal) goes to depends on its
\* binary expansion: up says which
ToFixed2(x, up) ==
    LET lower == (x \div 100) * 100
    IN  IF x % 100 < 50 \/ (x % 100 = 50 /\ ~up) THEN lower ELSE lower + 100

\* what analyzeMarket computes from the metrics of lines 398-400 and the
\* account value; score is its variable confidence before the return
analyzeMarket(momentum, fundingRate, volumeTrend, volatility, accountValue, up) ==
    LET base == BaseScore(momentum, fundingRate)
        positionLimits == calculatePositionLimits(accountValue, volatility)
        confidence == Adjusted(base.confidence, volumeTrend, volatility,
                               positionLimits.riskBand.level)
    IN  [recommendation |-> base.recommendation,
         score |-> confidence,
         confidence |-> ToFixed2(confidence, up),
         positionLimits |-> positionLimits]

(***************************************************************************)
(* SpecRisk: one analyzeMarket invocation, from the arrival of the market  *)
(* data and the account information to its return.                         *)
(***************************************************************************)
\* 0, 1%, 1.99%, 2%, 2.01%, 4.99%, 5%, 10%, 19.9%, 20%, 30%
Volatilities == {0, 100, 199, 200, 201, 499, 500, 1000, 1990, 2000, 3000}

\* -4%, -3%, -2.1%, -2%, 0, 2%, 2.01%, 2.1%, 3%, 3.99%, 16%, 20%
Momenta == {-400, -300, -210, -200, 0, 200, 201, 210, 300, 399, 1600, 2000}

\* 0.0005, 0.001, 0.0011
FundingRates == {5, 10, 11}

\* 0.1, 0.1001
VolumeTrends == {1000, 1001}

\* 10000 is the value analyzeMarket takes when it is given no account
AccountValues == {-100, 0, 1, 10000}

CallAnalyzeMarket ==
    /\ calls = <<>>
    /\ \E momentum \in Momenta, fundingRate \in FundingRates,
          volumeTrend \in VolumeTrends, volatility \in Volatilities,
          accountValue \in AccountValues, up \in BOOLEAN :
          calls' = << [fn |-> "analyzeMarket", momentum |-> momentum,
                       fundingRate |-> fundingRate, volumeTrend |-> volumeTrend,
                       volatility |-> volatility, accountValue |-> accountValue,
                       ret |-> analyzeMarket(momentum, fundingRate, volumeTrend,
                                             volatility, accountValue, up)] >>
    /\ UNCHANGED <<now, jwtToken, requests, signatures, batch, proc, timers,
                   authRefreshTimeout, refreshInterval, triggers, armedAt,
                   ticks, fired,
                   rateLimiter, marketCache, orderStore>>

NextRisk == CallAnalyzeMarket

SpecRisk == Init /\ [][NextRisk]_vars

(***************************************************************************)
(* SpecCancel: the handler of the paradex-cancel-order action (index.ts)   *)
(* and the cancelOrder invocation it makes.  The log of invocations holds  *)
(* one record for the handler and, right after it, the record of its       *)
(* cancelOrder call.                                                       *)
(***************************************************************************)
\* invocations of the handler under SpecCancel
MaxCancelActions == 2

\* what the user says, word by word and in lower case already
CancelTexts ==
    { <<"cancel", "order", "123">>, <<"remove", "#", "abc">>,
      <<"cancel", "it">> }

\* text.match(/(?:order|#)\s*([a-zA-Z0-9]+)/): the word after the first
\* "order" or "#", <<>> when there is none
OrderIdMatch(text) ==
    LET hits == {i \in 1..(Len(text) - 1) : text[i] \in {"order", "#"}}
    IN  IF hits = {} THEN <<>>
        ELSE <<text[(CHOOSE i \in hits : \A j \in hits : i <= j) + 1]>>

\* the handler after await cancelOrder(...), whose record is c: the try
\* block goes on when cancelOrder returned, the catch block runs when it
\* threw
HandlerAfterCancel(handler, c) ==
    IF c.pc = "threw"
    THEN [handler EXCEPT !.pc = "returned", !.success = FALSE,
                         !.message = c.error]
    ELSE [handler EXCEPT !.pc = "returned", !.success = TRUE,
                         !.message = "has been canceled successfully"]

CancelHandlers ==
    {i \in 1..Len(calls) : calls[i].fn = "paradex-cancel-order"}

\* the handler runs up to its await, or to its return when the text names
\* no order
CancelOrderAction ==
    /\ Cardinality(CancelHandlers) < MaxCancelActions
    /\ \E text \in CancelTexts :
          LET match == OrderIdMatch(text)
              handler == [fn |-> "paradex-cancel-order", origin |-> "agent",
                          text |-> text, orderId |-> match,
                          pc |-> IF match = <<>> THEN "returned" ELSE "awaiting",
                          success |-> FALSE,
                          message |-> IF match = <<>>
                                      THEN "Please specify the order ID."
                                      ELSE ""]
              logged == [Wire EXCEPT !.calls = Append(calls, handler)]
          IN  IF match = <<>>
              THEN SetWire(logged)
              ELSE SetWire(InvokeOn(logged, "cancelOrder", "cancel-action",
                                    NoOrder, jwtToken, now))
    /\ UNCHANGED <<now, jwtToken, batch, proc, timers, authRefreshTimeout,
                   refreshInterval, triggers, armedAt, ticks, fired,
                   rateLimiter, marketCache, orderStore>>

\* the exchange answers the DELETE, cancelOrder returns and the handler
\* runs to its return
CancelRespond ==
    /\ \E id \in CallsFrom({"cancel-action"}), outcome \in Outcomes :
          /\ calls[id].pc = "awaiting"
          /\ calls' = [calls EXCEPT
                         ![id] = Settled(calls[id], id, outcome),
                         ![id - 1] = HandlerAfterCancel(
                                         calls[id - 1],
                                         Settled(calls[id], id, outcome))]
          /\ requests' = RequestsAfterSettle(requests, id, outcome)
    /\ UNCHANGED <<now, jwtToken, signatures, batch, proc, timers,
                   authRefreshTimeout, refreshInterval, triggers, armedAt,
                   ticks, fired,
                   rateLimiter, marketCache, orderStore>>

NextCancel == CancelOrderAction \/ CancelRespond

SpecCancel == Init /\ [][NextCancel]_vars

(***************************************************************************)
(* SpecLimiter: the rateLimiter object of index.ts and the handler that    *)
(* main() wraps around every action.  The wrapped action is the one that   *)
(* lists the markets; what the exchange answers is no part of this         *)
(* specification, the limiter plays no part in it.  The log of invocations *)
(* holds one record for each invocation of the wrapper and, right after    *)
(* the record of an admitted one, the record of its listAvailableMarkets   *)
(* call.                                                                   *)
(***************************************************************************)
REQUESTS_PER_MINUTE == 25
REQUESTS_PER_DAY == 950
MinuteMs == 60000
DayMs == 86400000

\* invocations of the wrapper under SpecLimiter
MaxWrapped == 26
\* steps the clock takes under SpecLimiter
MaxLimiterTicks == 2

LimiterSteps == {30000, 60000}

\* rateLimiter.resetCounters() at time t
resetCounters(self, t) ==
    LET minute == IF t - self.lastMinuteTimestamp >= MinuteMs
                  THEN [self EXCEPT !.requestsThisMinute = 0,
                                    !.lastMinuteTimestamp = t]
                  ELSE self
    IN  IF t - minute.lastDayTimestamp >= DayMs
        THEN [minute EXCEPT !.requestsToday = 0, !.lastDayTimestamp = t]
        ELSE minute

AdmitsAtTheLimit(self, t) ==
    LET reset == resetCounters(self, t)
    IN  [self |-> reset,
         result |-> /\ reset.requestsThisMinute <= REQUESTS_PER_MINUTE
                    /\ reset.requestsToday <= REQUESTS_PER_DAY]

\* rateLimiter.canMakeRequest() at time t: what it returns and what it
\* leaves of the object
canMakeRequest(self, t) ==
    LET reset == resetCounters(self, t)
    IN  [self |-> reset,
         result |-> /\ reset.requestsThisMinute < REQUESTS_PER_MINUTE
                    /\ reset.requestsToday < REQUESTS_PER_DAY]

\* rateLimiter.trackRequest()
trackRequest(self) ==
    [self EXCEPT !.requestsThisMinute = @ + 1, !.requestsToday = @ + 1]

\* invocations of the wrapper
Wrapped == {i \in 1..Len(calls) : calls[i].origin = "wrapper"}

RunsHandlerAnyway(logged, allowed, token, t) ==
    InvokeOn(logged, "listAvailableMarkets", "wrapped", NoOrder, token, t)

\* return originalAction.handler(call, ctx, agent) after an admission, for
\* the action paradex-list-available-markets: the handler runs up to the
\* fetch of listAvailableMarkets
OriginalHandler(logged, allowed, token, t) ==
    IF allowed
    THEN InvokeOn(logged, "listAvailableMarkets", "wrapped", NoOrder, token, t)
    ELSE logged

\* the handler main() puts in the place of the action's own
WrappedHandler ==
    /\ Cardinality(Wrapped) < MaxWrapped
    /\ LET check == canMakeRequest(rateLimiter, now)
           record == [fn |-> "paradex-list-available-markets",
                      origin |-> "wrapper", start |-> now,
                      admitted |-> check.result,
                      pc |-> IF check.result THEN "awaiting" ELSE "returned",
                      success |-> FALSE,
                      message |-> IF check.result THEN ""
                                  ELSE "Rate limit reached."]
           logged == [Wire EXCEPT !.calls = Append(calls, record)]
       IN  /\ rateLimiter' = IF check.result THEN trackRequest(check.self)
                             ELSE check.self
           /\ SetWire(OriginalHandler(logged, check.result, jwtToken, now))
    /\ UNCHANGED <<now, jwtToken, batch, proc, timers, authRefreshTimeout,
                   refreshInterval, triggers, armedAt, ticks, fired,
                   marketCache, orderStore>>

\* time passes between two actions
LimiterTick ==
    /\ ticks < MaxLimiterTicks
    /\ \E step \in LimiterSteps : now' = now + step
    /\ ticks' = ticks + 1
    /\ UNCHANGED <<jwtToken, calls, requests, signatures, batch, proc, timers,
                   authRefreshTimeout, refreshInterval, triggers, armedAt,
                   fired, rateLimiter, marketCache, orderStore>>

\* the actions admitted earlier on the day at which a behaviour starts:
\* none (index.ts has just been loaded), or 948 of them, the last 23 in the
\* minute that began 60 s before
EarlierToday == {0, 948}

InitLimiter ==
    \E earlier \in EarlierToday :
        /\ now = IF earlier = 0 THEN 0 ELSE DayMs - 90000
        /\ rateLimiter =
              IF earlier = 0 THEN NewRateLimiter(0)
              ELSE [requestsThisMinute |-> 23, requestsToday |-> earlier,
                    lastMinuteTimestamp |-> DayMs - 150000,
                    lastDayTimestamp |-> 0]
        /\ jwtToken = <<>>
        /\ calls = <<>>
        /\ requests = <<>>
        /\ signatures = <<>>
        /\ batch = NoBatch
        /\ proc = "running"
        /\ timers = {}
        /\ authRefreshTimeout = 0
        /\ refreshInterval = [armed |-> FALSE, due |-> 0]
        /\ triggers = <<>>
        /\ armedAt = 0
        /\ ticks = 0
        /\ fired = <<>>
        /\ marketCache = NewMap
        /\ orderStore = NewMap

NextLimiter == WrappedHandler \/ LimiterTick

SpecLimiter == InitLimiter /\ [][NextLimiter]_vars

(***************************************************************************)
(* SpecCache: getCachedMarkets (index.ts) and the marketCache map.  The    *)
(* log of invocations holds one record for each invocation of              *)
(* getCachedMarkets and, right after the record of one that found no fresh *)
(* entry, the record of its listAvailableMarkets call.  The results of a   *)
(* response are named after the invocation that received them.             *)
(***************************************************************************)
CACHE_DURATION == 30000

\* invocations of getCachedMarkets under SpecCache
MaxCacheCalls == 2
\* steps the clock takes under SpecCache
MaxCacheTicks == 2

CacheSteps == {10000, 30000}

\* the market argument: "" when it is left out
CacheMarkets == {"", "BTC-USD-PERP"}

\* market || 'all_markets'
CacheKey(market) == IF market = "" THEN "all_markets" ELSE market

\* map.set(key, value)
MapSet(map, key, value) ==
    [k \in DOMAIN map \cup {key} |-> IF k = key THEN value ELSE map[k]]

FreshAtThirtySeconds(map, key, t) ==
    /\ key \in DOMAIN map
    /\ t - map[key].timestamp <= CACHE_DURATION

\* cached && (Date.now() - cached.timestamp < CACHE_DURATION)
IsFresh(map, key, t) ==
    /\ key \in DOMAIN map
    /\ t - map[key].timestamp < CACHE_DURATION

CachedCalls == {i \in 1..Len(calls) : calls[i].fn = "getCachedMarkets"}

\* getCachedMarkets runs up to its return, or up to the fetch of
\* listAvailableMarkets
GetCachedMarkets ==
    /\ Cardinality(CachedCalls) < MaxCacheCalls
    /\ \E market \in CacheMarkets :
          LET cacheKey == CacheKey(market)
              hit == IsFresh(marketCache, cacheKey, now)
              record == [fn |-> "getCachedMarkets", origin |-> "handler",
                         key |-> cacheKey, start |-> now,
                         pc |-> IF hit THEN "returned" ELSE "awaiting",
                         served |-> IF hit THEN "cache" ELSE "none",
                         data |-> IF hit THEN marketCache[cacheKey].data ELSE <<>>,
                         storedAt |-> IF hit THEN marketCache[cacheKey].timestamp
                                      ELSE 0,
                         error |-> ""]
              logged == [Wire EXCEPT !.calls = Append(calls, record)]
          IN  IF hit
              THEN SetWire(logged)
              ELSE SetWire(InvokeOn(logged, "listAvailableMarkets", "cache",
                                    [NoOrder EXCEPT !.market = market],
                                    jwtToken, now))
    /\ UNCHANGED <<now, jwtToken, batch, proc, timers, authRefreshTimeout,
                   refreshInterval, triggers, armedAt, ticks, fired,
                   rateLimiter, marketCache, orderStore>>

\* marketCache.set(cacheKey, {data: markets, timestamp: Date.now()}), which
\* a throw of listAvailableMarkets skips
CacheAfterFetch(map, caller, c, id, t) ==
    IF c.pc = "returned"
    THEN MapSet(map, caller.key, [data |-> <<id>>, timestamp |-> t])
    ELSE map

\* getCachedMarkets after await listAvailableMarkets(...), whose record is c
CachedAfterFetch(caller, c, id, t) ==
    IF c.pc = "returned"
    THEN [caller EXCEPT !.pc = "returned", !.served = "fetch",
                        !.data = <<id>>, !.storedAt = t]
    ELSE [caller EXCEPT !.pc = "threw", !.error = c.error]

\* the exchange answers GET /markets, listAvailableMarkets returns or
\* throws and getCachedMarkets runs to its end
CacheRespond ==
    /\ \E id \in Awaiting({"cache"}), outcome \in Outcomes :
          LET c == Settled(calls[id], id, outcome)
          IN  /\ calls' = [calls EXCEPT
                             ![id] = c,
                             ![id - 1] = CachedAfterFetch(calls[id - 1], c, id, now)]
              /\ requests' = RequestsAfterSettle(requests, id, outcome)
              /\ marketCache' = CacheAfterFetch(marketCache, calls[id - 1], c, id, now)
    /\ UNCHANGED <<now, jwtToken, signatures, batch, proc, timers,
                   authRefreshTimeout, refreshInterval, triggers, armedAt,
                   ticks, fired, rateLimiter, orderStore>>

\* time passes
CacheTick ==
    /\ ticks < MaxCacheTicks
    /\ \E step \in CacheSteps : now' = now + step
    /\ ticks' = ticks + 1
    /\ UNCHANGED <<jwtToken, calls, requests, signatures, batch, proc, timers,
                   authRefreshTimeout, refreshInterval, triggers, armedAt,
                   fired, rateLimiter, marketCache, orderStore>>

NextCache == GetCachedMarkets \/ CacheRespond \/ CacheTick

SpecCache == Init /\ [][NextCache]_vars

(***************************************************************************)
(* SpecOrder: the handler of the paradex-open-order action (index.ts),     *)
(* with the market cache, openOrder, the order history of memory.ts and    *)
(* the debounced refresh.  The log of invocations holds one record for     *)
(* each invocation of the handler; the record names, in awaits, the        *)
(* invocation of a paradex.ts function the handler awaited last.  The      *)
(* numbers of the texts and of the markets are whole, and the handler's    *)
(* arithmetic is exact on them.  The handler is invoked again when its     *)
(* earlier invocation has returned: what invocations that overlap share    *)
(* is the cache (SpecCache) and the token and its refresh (SpecAgent).     *)
(***************************************************************************)
\* invocations of the handler under SpecOrder
MaxOrderActions == 2

\* text.match(orderPattern): what the pattern captures from the texts
\*   "hello", "buy 1 btc at market price", "buy 1 btc at limit 105",
\*   "sell 1 btc at limit 120", "sell 1 btc at limit 0", "buy 1 btc at limit",
\*   "buy 1 doge at market" and "buy 1 btc"; an absent group is "" or <<>>
Captured(side, baseToken, orderType, limitPrice) ==
    [matched |-> TRUE, side |-> side, size |-> <<"1">>,
     baseToken |-> baseToken, orderType |-> orderType,
     limitPrice |-> limitPrice]

OrderTexts ==
    { [matched |-> FALSE, side |-> "", size |-> <<>>, baseToken |-> "",
       orderType |-> "", limitPrice |-> <<>>],
      Captured("buy", "btc", "market", <<>>),
      Captured("buy", "btc", "limit", <<"1", "0", "5">>),
      Captured("sell", "btc", "limit", <<"1", "2", "0">>),
      Captured("sell", "btc", "limit", <<"0">>),
      Captured("buy", "btc", "limit", <<>>),
      Captured("buy", "doge", "market", <<>>),
      Captured("buy", "btc", "", <<>>) }

ToUpperCase(s) ==
    CASE s = "buy" -> "BUY" [] s = "sell" -> "SELL" [] s = "btc" -> "BTC"
      [] s = "doge" -> "DOGE" [] OTHER -> s

\* `${baseToken.toUpperCase()}-USD-PERP`
MarketSymbol(baseToken) ==
    CASE ToUpperCase(baseToken) = "BTC" -> "BTC-USD-PERP"
      [] ToUpperCase(baseToken) = "DOGE" -> "DOGE-USD-PERP"
      [] OTHER -> "-USD-PERP"

\* one market of the results of GET /markets; hasLast is FALSE when the
\* market has no last_price
Btc(hasLast) ==
    [symbol |-> "BTC-USD-PERP", order_size_increment |-> <<"1">>,
     tick_size |-> <<"1", "0">>, hasLast |-> hasLast,
     last_price |-> IF hasLast THEN <<"1", "0", "0">> ELSE <<>>]

\* the results the exchange can answer with
MarketResults == { <<>>, <<Btc(TRUE)>>, <<Btc(FALSE)>> }

\* availableMarkets.find(m => m.symbol === marketSymbol): the markets found
Find(results, marketSymbol) ==
    SelectSeq(results, LAMBDA m : m.symbol = marketSymbol)

\* Math.ceil(n / increment) * increment
CeilToMultiple(n, increment) ==
    ((n + increment - 1) \div increment) * increment

\* Math.max(a, b)
MathMax(a, b) == IF a >= b THEN a ELSE b

NoDetails ==
    [market |-> "", side |-> "", type |-> "", size |-> <<>>,
     timeInForceType |-> "", hasPrice |-> FALSE, price |-> <<>>]

\* orderDetails as the handler builds it for a market, the price included
OrderDetailsFor(text, market) ==
    LET sizeNum == Number(TRUE, text.size).val
        sizeIncrement == Number(TRUE, market.order_size_increment).val
        tickSize == Number(TRUE, market.tick_size).val
        priceNum == Number(TRUE, text.limitPrice).val
        limit == text.orderType = "limit"
    IN  [market |-> market.symbol,
         side |-> ToUpperCase(text.side),
         type |-> IF limit THEN "LIMIT" ELSE "MARKET",
         size |-> DecimalString(MathMax(sizeIncrement,
                                        CeilToMultiple(sizeNum, sizeIncrement))),
         timeInForceType |-> IF text.orderType = "market" THEN "IOC" ELSE "GTC",
         hasPrice |-> limit /\ text.limitPrice # <<>>,
         price |-> IF limit /\ text.limitPrice # <<>>
                   THEN DecimalString(CeilToMultiple(priceNum, tickSize))
                   ELSE <<>>]

\* Number(currentMarket[0]?.last_price || 0)
LastPrice(currentMarket) ==
    IF currentMarket = <<>> \/ ~currentMarket[1].hasLast THEN 0
    ELSE Number(TRUE, currentMarket[1].last_price).val

\* lastPrice && Math.abs((priceNum - lastPrice) / lastPrice) > 0.1
Deviates(priceNum, lastPrice) ==
    /\ lastPrice # 0
    /\ 10 * Abs(priceNum - lastPrice) > Abs(lastPrice)

\* the handler returns {success: false, ...}
Fails(handler, message) ==
    [handler EXCEPT !.pc = "returned", !.success = FALSE,
                    !.message = message]

\* the handler and the invocations once the handler has stopped, at an
\* await or at its return
Stopped(handler, w) == [handler |-> handler, w |-> w]

\* await openOrder(config, account, orderDetails), up to its fetch; a throw
\* of its validation is caught twice and becomes a failure result
StageOrder(handler, w, token, t) ==
    LET id == Len(w.calls) + 1
        invoked == InvokeOn(w, "openOrder", "open-order", handler.details,
                            token, t)
    IN  IF invoked.calls[id].pc = "threw"
        THEN Stopped(Fails([handler EXCEPT !.awaits = id],
                           invoked.calls[id].error), invoked)
        ELSE Stopped([handler EXCEPT !.pc = "order", !.awaits = id], invoked)

SkipsDeviationGuard(handler, currentMarket, w, token, t) ==
    StageOrder(handler, w, token, t)

\* from the result of getCachedMarkets(config, marketSymbol): the
\* deviation guard, then openOrder
AfterLastPrice(handler, currentMarket, w, token, t) ==
    IF Deviates(Number(TRUE, handler.text.limitPrice).val,
                LastPrice(currentMarket))
    THEN Stopped(Fails(handler, "Warning: Your limit price deviates significantly"), w)
    ELSE StageOrder(handler, w, token, t)

\* await getCachedMarkets(config, marketSymbol): served from the cache, or
\* up to the fetch of listAvailableMarkets
StageLastPrice(handler, w, cache, token, t) ==
    LET key == CacheKey(handler.details.market)
        id == Len(w.calls) + 1
    IN  IF IsFresh(cache, key, t)
        THEN AfterLastPrice(handler, cache[key].data, w, token, t)
        ELSE Stopped([handler EXCEPT !.pc = "last", !.awaits = id],
                     InvokeOn(w, "listAvailableMarkets", "open-order",
                              [NoOrder EXCEPT !.market = handler.details.market],
                              token, t))

\* from the result of getCachedMarkets(config): the market, orderDetails
\* and the guards of a LIMIT order
AfterMarkets(handler, availableMarkets, w, cache, token, t) ==
    LET text == handler.text
        found == Find(availableMarkets, MarketSymbol(text.baseToken))
        built == [handler EXCEPT !.details = OrderDetailsFor(text, found[1])]
    IN  IF found = <<>>
        THEN Stopped(Fails(handler, "Market is not available"), w)
        ELSE IF text.orderType = ""
        THEN Stopped(Fails(handler, "Cannot read properties of undefined"), w)
        ELSE IF built.details.type = "LIMIT"
        THEN IF text.limitPrice = <<>>
             THEN Stopped(Fails([handler EXCEPT
                                   !.details = [built.details EXCEPT
                                                  !.hasPrice = FALSE]],
                                "Limit orders require a price"), w)
             ELSE StageLastPrice(built, w, cache, token, t)
        ELSE StageOrder(built, w, token, t)

\* await getCachedMarkets(config): served from the cache, or up to the
\* fetch of listAvailableMarkets
StageMarkets(handler, w, cache, token, t) ==
    LET id == Len(w.calls) + 1
    IN  IF IsFresh(cache, CacheKey(""), t)
        THEN AfterMarkets(handler, cache[CacheKey("")].data, w, cache, token, t)
        ELSE Stopped([handler EXCEPT !.pc = "markets", !.awaits = id],
                     InvokeOn(w, "listAvailableMarkets", "open-order",
                              NoOrder, token, t))

OpenOrderHandlers ==
    {i \in 1..Len(calls) : calls[i].fn = "paradex-open-order"}

\* the handler and the invocations go into the log
Log(h, stopped) ==
    SetWire([stopped.w EXCEPT !.calls[h] = stopped.handler])

\* the handler is invoked and runs up to its first fetch, or to its return
OpenOrderHandler ==
    /\ Cardinality(OpenOrderHandlers) < MaxOrderActions
    /\ \A other \in OpenOrderHandlers : calls[other].pc = "returned"
    /\ \E text \in OrderTexts :
          LET h == Len(calls) + 1
              handler == [fn |-> "paradex-open-order", origin |-> "agent",
                          text |-> text, start |-> now, pc |-> "started",
                          success |-> FALSE, message |-> "", awaits |-> 0,
                          details |-> NoDetails, orderId |-> <<>>,
                          result |-> <<>>]
              logged == [Wire EXCEPT !.calls = Append(calls, handler)]
          IN  IF ~text.matched
              THEN Log(h, Stopped(Fails(handler, "Invalid order format"), logged))
              ELSE Log(h, StageMarkets(handler, logged, marketCache, jwtToken, now))
    /\ UNCHANGED <<now, jwtToken, batch, proc, timers, authRefreshTimeout,
                   refreshInterval, triggers, armedAt, ticks, fired,
                   rateLimiter, marketCache, orderStore>>

\* the handlers that wait at the given place
WaitingAt(pc) == {h \in OpenOrderHandlers : calls[h].pc = pc}

\* the exchange answers the GET /markets of getCachedMarkets(config)
MarketsRespond ==
    /\ \E h \in WaitingAt("markets"), outcome \in Outcomes,
          results \in MarketResults :
          LET id == calls[h].awaits
              c == Settled(calls[id], id, outcome)
              w == [Wire EXCEPT !.calls[id] = c]
              cache == IF c.pc = "returned"
                       THEN MapSet(marketCache, CacheKey(""),
                                   [data |-> results, timestamp |-> now])
                       ELSE marketCache
          IN  /\ marketCache' = cache
              /\ IF c.pc = "returned"
                 THEN Log(h, AfterMarkets(calls[h], results, w, cache,
                                          jwtToken, now))
                 ELSE Log(h, Stopped(Fails(calls[h], c.error), w))
    /\ UNCHANGED <<now, jwtToken, batch, proc, timers, authRefreshTimeout,
                   refreshInterval, triggers, armedAt, ticks, fired,
                   rateLimiter, orderStore>>

\* the exchange answers the GET /markets?market=... of
\* getCachedMarkets(config, marketSymbol)
LastPriceRespond ==
    /\ \E h \in WaitingAt("last"), outcome \in Outcomes,
          results \in MarketResults :
          LET id == calls[h].awaits
              c == Settled(calls[id], id, outcome)
              w == [Wire EXCEPT !.calls[id] = c]
          IN  /\ marketCache' =
                    IF c.pc = "returned"
                    THEN MapSet(marketCache, CacheKey(calls[h].details.market),
                                [data |-> results, timestamp |-> now])
                    ELSE marketCache
              /\ IF c.pc = "returned"
                 THEN Log(h, AfterLastPrice(calls[h], results, w, jwtToken, now))
                 ELSE Log(h, Stopped(Fails(calls[h], c.error), w))
    /\ UNCHANGED <<now, jwtToken, batch, proc, timers, authRefreshTimeout,
                   refreshInterval, triggers, armedAt, ticks, fired,
                   rateLimiter, orderStore>>

\* data.orderId || data.id || 'filled-immediately': the id in the body of
\* a 2xx response is the exchange's, one for each order, and is named here
\* after the invocation that received it
ResultOrderId(c, id) ==
    IF c.orderId = "filled-immediately" THEN <<c.orderId>> ELSE <<c.orderId, id>>

\* the record the handler passes to storeOrder
OrderRecord(handler, c, id, t) ==
    [market |-> handler.details.market, side |-> handler.details.side,
     type |-> handler.details.type, size |-> handler.details.size,
     price |-> handler.details.price, timestamp |-> t,
     status |-> c.status, response |-> <<id>>,
     originalRequest |-> handler.text]

StoresWhateverTheOutcome(store, handler, c, id, t) ==
    MapSet(store, ResultOrderId(c, id), OrderRecord(handler, c, id, t))

\* storeOrder(result.orderId, {...}) of memory.ts, after openOrder returned:
\* orderStore.set(orderId, orderData)
storeOrder(store, handler, c, id, t) ==
    IF c.pc = "returned"
    THEN MapSet(store, ResultOrderId(c, id), OrderRecord(handler, c, id, t))
    ELSE store

\* the exchange answers POST /orders: after a success the handler stores
\* the order, calls debouncedAuthRefresh and reports the order id
OpenOrderRespond ==
    /\ \E h \in WaitingAt("order"), outcome \in Outcomes :
          LET id == calls[h].awaits
              c == Settled(calls[id], id, outcome)
              done == IF c.pc = "returned"
                      THEN [calls[h] EXCEPT
                              !.pc = "returned", !.success = TRUE,
                              !.message = "order opened successfully",
                              !.orderId = ResultOrderId(c, id),
                              !.result = <<id>>]
                      ELSE Fails(calls[h], c.error)
          IN  /\ calls' = [calls EXCEPT ![id] = c, ![h] = done]
              /\ requests' = RequestsAfterSettle(requests, id, outcome)
              /\ orderStore' = storeOrder(orderStore, calls[h], c, id, now)
              /\ IF c.pc = "returned"
                 THEN DebouncedAuthRefresh
                 ELSE UNCHANGED <<timers, authRefreshTimeout, triggers>>
    /\ UNCHANGED <<now, jwtToken, signatures, batch, proc, refreshInterval,
                   armedAt, ticks, fired, rateLimiter, marketCache>>

NextOrder ==
    \/ OpenOrderHandler
    \/ MarketsRespond
    \/ LastPriceRespond
    \/ OpenOrderRespond

SpecOrder == Init /\ [][NextOrder]_vars

(***************************************************************************)
(* Claims checked under SpecAgent.                                         *)
(***************************************************************************)
\* trigger i was followed by another less than DebounceMs later
Superseded(i) ==
    i < Len(triggers) /\ triggers[i + 1] - triggers[i] < DebounceMs

\* trigger i was followed by none until its timer was due
LastOfBurst(i) ==
    i = Len(triggers) \/ triggers[i + 1] - triggers[i] > DebounceMs

FiredHandles == {fired[n].handle : n \in 1..Len(fired)}

\* C4: a trigger that is followed by another within less than 1000 ms has
\* its timer cancelled and starts nothing; the last trigger of such a run
\* starts exactly one authenticate, 1000 ms after it.
C4_DebounceCoalesces ==
    /\ \A i \in 1..Len(triggers) : Superseded(i) => i \notin FiredHandles
    /\ \A i \in 1..Len(triggers) :
           LastOfBurst(i) /\ now > triggers[i] + DebounceMs => i \in FiredHandles
    /\ \A n \in 1..Len(fired) :
           /\ calls[fired[n].call].origin = "debounce"
           /\ calls[fired[n].call].fn = "authenticate"
           /\ calls[fired[n].call].start = triggers[fired[n].handle] + DebounceMs
    /\ \A n, m \in 1..Len(fired) : n # m => fired[n].handle # fired[m].handle
    /\ Cardinality(CallsFrom({"debounce"})) = Len(fired)

\* two triggers 500 ms apart, and one authenticate, started by the second
\* trigger's timer
C4_Witness ==
    /\ Len(triggers) = 2
    /\ triggers[2] - triggers[1] = Delay
    /\ Len(fired) = 1
    /\ fired[1].handle = 2
    /\ calls[fired[1].call].start = triggers[2] + DebounceMs

\* C5 as claimed: a debounced refresh never starts its authenticate while an
\* authenticate started earlier by the interval timer or by a debounced
\* refresh is still in flight.
C5_NoConcurrentReauthentication ==
    \A k \in CallsFrom({"debounce"}), j \in CallsFrom({"interval", "debounce"}) :
        j < k => ~(calls[j].pc = "awaiting" /\ calls[k].pc = "awaiting")

IntervalCalls == CallsFrom({"interval"})

\* C6: while the process runs after login the interval timer stays armed,
\* and the refresh attempts started so far are those of the times
\* armedAt + k * 177000 that have been reached, one each, whatever the
\* outcome of the earlier attempts.
C6_PeriodicRefreshRecurs ==
    proc \in {"account", "running"} =>
        /\ refreshInterval.armed
        /\ refreshInterval.due
             = armedAt + (Cardinality(IntervalCalls) + 1) * RefreshIntervalMs
        /\ now <= refreshInterval.due
        /\ \A k \in IntervalCalls :
               /\ calls[k].fn = "authenticate"
               /\ calls[k].start > armedAt
               /\ calls[k].start < refreshInterval.due
               /\ (calls[k].start - armedAt) % RefreshIntervalMs = 0
        /\ \A k, j \in IntervalCalls : k # j => calls[k].start # calls[j].start

\* a refresh attempt failed and the next one was started 177000 ms later
C6_Witness ==
    \E k, j \in IntervalCalls :
        /\ calls[k].pc = "threw"
        /\ calls[j].start = calls[k].start + RefreshIntervalMs
        /\ proc = "running"

AuthCalls == {id \in 1..Len(calls) : calls[id].fn = "authenticate"}

\* C7: a step changes the token only if an authenticate returns in it, to
\* the jwt_token of that response; a step in which an authenticate throws
\* leaves the token as it was.
C7_TokenChangesOnlyOnSuccess ==
    [][ /\ jwtToken' # jwtToken =>
             \E id \in AuthCalls :
                 /\ calls[id].pc = "awaiting"
                 /\ calls'[id].pc = "returned"
                 /\ calls'[id].outcome = "ok"
                 /\ jwtToken' = calls'[id].jwt
        /\ \A id \in AuthCalls :
             /\ calls[id].pc = "awaiting" /\ calls'[id].pc = "returned"
                  => jwtToken' = calls'[id].jwt
             /\ calls[id].pc = "awaiting" /\ calls'[id].pc = "threw"
                  => jwtToken' = jwtToken ]_vars

\* the token is the one a refresh returned, and refreshes have failed in
\* each of the three ways
C7_Witness ==
    /\ \E j \in CallsFrom({"interval", "debounce"}) :
           calls[j].pc = "returned" /\ jwtToken = calls[j].jwt
    /\ \E k \in CallsFrom({"interval", "debounce"}) : calls[k].outcome = "empty"
    /\ \E k \in CallsFrom({"interval", "debounce"}) : calls[k].outcome \in Failures

(***************************************************************************)
(* Claims checked under SpecBatch.                                         *)
(***************************************************************************)
BatchCall(i) == calls[batch.first + i - 1]

BatchIndexes == 1..Len(batch.orders)

\* validation lets the order through: no price, or a price above 0
PassesValidation(order) ==
    ~order.hasPrice \/ Number(TRUE, order.price).nan
        \/ Number(TRUE, order.price).val > 0

\* C2: the batch never throws; an order that failed has a FAILED item with
\* an empty orderId and a non-empty error; every order that passes
\* validation was sent, whatever happened to its siblings; and the batch
\* returns once every order has an outcome.
C2_BatchIsolatesFailures ==
    /\ batch.pc # "threw"
    /\ \A i \in BatchIndexes :
           /\ PassesValidation(batch.orders[i])
                => Cardinality(RequestsOf(batch.first + i - 1)) = 1
           /\ BatchCall(i).pc = "threw" =>
                /\ batch.slots[i].filled
                /\ batch.slots[i].item.status = "FAILED"
                /\ batch.slots[i].item.orderId = ""
                /\ batch.slots[i].item.error # ""
    /\ ~(batch.pc = "running" /\ \A i \in BatchIndexes : BatchCall(i).pc # "awaiting")

\* three orders: the first succeeded, the second failed validation, the
\* third was refused by the exchange; the batch has returned
C2_Witness ==
    /\ batch.pc = "returned"
    /\ Len(batch.orders) = 3
    /\ BatchCall(1).pc = "returned"
    /\ BatchCall(2).outcome = "none"
    /\ BatchCall(3).outcome = "http_error"
    /\ batch.slots[1].item.status # "FAILED"
    /\ batch.slots[2].item.status = "FAILED"
    /\ batch.slots[3].item.status = "FAILED"

\* C3: a returned batch has one result per order, and result i reports the
\* market and the outcome of order i.
C3_ResultsArePositional ==
    batch.pc = "returned" =>
        /\ Len(batch.slots) = Len(batch.orders)
        /\ \A i \in BatchIndexes :
               /\ batch.slots[i].filled
               /\ batch.slots[i].item.market = batch.orders[i].market
               /\ BatchCall(i).pc = "returned" =>
                    /\ batch.slots[i].item.orderId = BatchCall(i).orderId
                    /\ batch.slots[i].item.status = BatchCall(i).status
               /\ BatchCall(i).pc = "threw" =>
                    /\ batch.slots[i].item.status = "FAILED"
                    /\ batch.slots[i].item.error = BatchCall(i).error

\* the second order's response arrived before the first's (the first was
\* refused, the second accepted), on different markets
C3_Witness ==
    /\ batch.pc = "returned"
    /\ Len(batch.orders) >= 2
    /\ batch.orders[1].market # batch.orders[2].market
    /\ BatchCall(1).outcome = "http_error"
    /\ BatchCall(2).outcome = "ok"
    /\ batch.slots[1].item.status = "FAILED"
    /\ batch.slots[2].item.status = "NEW"

(***************************************************************************)
(* Claims checked under Spec.                                              *)
(***************************************************************************)
\* the price is present and numerically <= 0
NonPositivePrice(order) ==
    /\ order.hasPrice
    /\ ~Number(TRUE, order.price).nan
    /\ Number(TRUE, order.price).val <= 0

\* C1: an openOrder whose price is present and numerically <= 0 has thrown,
\* and no signature was computed and no request was sent for it.
C1_NonPositivePriceFailsFast ==
    \A id \in OpenOrderCalls :
        NonPositivePrice(calls[id].order) =>
            /\ calls[id].pc = "threw"
            /\ SignaturesOf(id) = {}
            /\ RequestsOf(id) = {}

\* the prices "0" and "-5" have both been rejected
C1_Witness ==
    /\ \E id \in OpenOrderCalls :
           calls[id].order.price = <<"0">> /\ calls[id].pc = "threw"
    /\ \E id \in OpenOrderCalls :
           calls[id].order.price = <<"-", "5">> /\ calls[id].pc = "threw"

\* C8 as claimed: a function whose request got a non-2xx answer or failed
\* in the transport has thrown.
C8_EveryFailureRaises ==
    \A id \in 1..Len(calls) :
        calls[id].outcome \in Failures => calls[id].pc = "threw"

\* C9: no invocation has handed more than one request to fetch, also after
\* its request has failed.
C9_AtMostOneRequestPerCall ==
    \A id \in 1..Len(calls) : Cardinality(RequestsOf(id)) <= 1

\* an invocation whose only request failed has finished
C9_Witness ==
    \E id \in 1..Len(calls) :
        /\ calls[id].outcome \in Failures
        /\ calls[id].pc # "awaiting"
        /\ Cardinality(RequestsOf(id)) = 1

\* the tokens successful authenticate calls have returned
IssuedTokens == {calls[id].jwt : id \in {k \in 1..Len(calls) : calls[k].ret = "jwt"}}

\* C10 as claimed: every request to a bearer-authenticated endpoint carries
\* a token a successful authenticate returned, and /markets and /auth
\* requests carry no Authorization header.
C10_BearerRequestsCarryIssuedToken ==
    \A k \in 1..Len(requests) :
        /\ requests[k].path \in {"/account", "/positions", "/orders", "/orders/{id}"}
             => requests[k].hasAuth /\ requests[k].bearer \in IssuedTokens
        /\ requests[k].path = "/markets" => ~requests[k].hasAuth

(***************************************************************************)
(* Claims checked under SpecQuantums.                                      *)
(***************************************************************************)
QuantumCalls == {i \in 1..Len(calls) : calls[i].fn = "toQuantums"}

\* a decimal number: an optional "-", digits, at most one "." among them
IsDecimal(amount) ==
    LET body == IF amount # <<>> /\ amount[1] = "-" THEN Tail(amount)
                ELSE amount
        digits == SelectSeq(body, LAMBDA ch : ch # ".")
    IN  /\ digits # <<>>
        /\ AllDigits(digits)
        /\ Len(body) - Len(digits) <= 1

\* an optional "-" and then digits, nothing else
IsBase10Integer(s) ==
    \/ s # <<>> /\ AllDigits(s)
    \/ Len(s) > 1 /\ s[1] = "-" /\ AllDigits(Tail(s))

IntegerOf(s) ==
    IF s[1] = "-" THEN 0 - DecimalValue(Tail(s)) ELSE DecimalValue(s)

\* the amount as a fraction: Mantissa / 10^Scale
Unsigned(amount) == IF amount[1] = "-" THEN Tail(amount) ELSE amount

Scale(amount) == Len(FractionDigits(Unsigned(amount)))

Mantissa(amount) ==
    LET m == DecimalValue(IntegerDigits(Unsigned(amount))
                          \o FractionDigits(Unsigned(amount)))
    IN  IF amount[1] = "-" THEN 0 - m ELSE m

\* floor(amount * 10^precision), the common powers of ten cancelled
FloorOfProduct(amount, precision) ==
    IF precision >= Scale(amount)
    THEN Mantissa(amount) * 10 ^ (precision - Scale(amount))
    ELSE Mantissa(amount) \div 10 ^ (Scale(amount) - precision)

\* the product has at most 9 digits, so that the integers above hold it
Representable(amount, precision) ==
    /\ Len(Unsigned(amount)) <= 10
    /\ \/ precision <= Scale(amount)
       \/ Len(Unsigned(amount)) + precision - Scale(amount) <= 9

\* C11: toQuantums(amount, precision) is floor(amount * 10^precision)
\* written as a base-10 integer string, for every decimal amount (negative
\* ones round toward minus infinity, zero gives "0") and every precision
\* >= 0.
C11_ToQuantumsIsFloorAsInteger ==
    \A i \in QuantumCalls :
        LET c == calls[i]
        IN  IsDecimal(c.amount) =>
                /\ IsBase10Integer(c.ret)
                /\ Representable(c.amount, c.precision)
                      => IntegerOf(c.ret) = FloorOfProduct(c.amount, c.precision)

\* C28: toQuantums fails on a malformed numeric string: for an amount
\* that is no decimal number it raises to its caller and returns no
\* string such as "NaN".
C28_MalformedAmountRaises ==
    \A i \in QuantumCalls :
        ~IsDecimal(calls[i].amount) =>
            calls[i].pc = "threw" /\ calls[i].ret # <<"N", "a", "N">>

(***************************************************************************)
(* Claims checked under SpecSign.                                          *)
(***************************************************************************)
\* C12: an order of side "BUY" is signed with side "1", one of side "SELL"
\* with side "2", and an order of any other side is rejected: nothing is
\* signed and nothing is sent for it.
C12_SideIsEncodedOrRejected ==
    \A id \in OpenOrderCalls :
        LET side == calls[id].order.side
        IN  /\ side = "BUY" =>
                  \A k \in SignaturesOf(id) : signatures[k].message.side = "1"
            /\ side = "SELL" =>
                  \A k \in SignaturesOf(id) : signatures[k].message.side = "2"
            /\ side \notin {"BUY", "SELL"} =>
                  SignaturesOf(id) = {} /\ RequestsOf(id) = {}

\* C13: an order whose price is present but is no finite number is rejected
\* before anything is signed and before anything is sent.
C13_NonFinitePriceIsRejected ==
    \A id \in OpenOrderCalls :
        LET order == calls[id].order
            price == Number(order.hasPrice, order.price)
        IN  order.hasPrice /\ (price.nan \/ price.inf) =>
                /\ calls[id].pc = "threw"
                /\ SignaturesOf(id) = {}
                /\ RequestsOf(id) = {}

\* the entry of the signature log that invocation id made
SignedBy(id) == signatures[CHOOSE k \in SignaturesOf(id) : TRUE]

MarketOrderCalls == {id \in OpenOrderCalls : ~calls[id].order.hasPrice}

\* C14: an order without a price is not rejected by the validation and is
\* signed with the price quantum "0"; its size is signed as
\* toQuantums(size, 8).
C14_AbsentPriceIsSignedAsZero ==
    \A id \in MarketOrderCalls :
        /\ calls[id].pc = "awaiting"
        /\ SignaturesOf(id) # {}
        /\ RequestsOf(id) # {}
        /\ SignedBy(id).message.price = <<"0">>
        /\ SignedBy(id).message.size = toQuantums(calls[id].order.size, 8)

C14_Witness ==
    \E id \in MarketOrderCalls :
        /\ SignaturesOf(id) # {}
        /\ SignedBy(id).message.price = <<"0">>
        /\ SignedBy(id).message.size = <<"1">>
        /\ calls[id].order.size = Dust

OrderRequests == {k \in 1..Len(requests) : requests[k].path = "/orders"}

\* C15: the body of every order sent keeps the caller's fields unchanged
\* and adds signature and signature_timestamp; signature_timestamp is the
\* ms timestamp of the signed Order message, and the signed size and price
\* are toQuantums of the size and price sent, at precision 8.
C15_SignedOrderMatchesBody ==
    \A k \in OrderRequests :
        LET body == requests[k].body
            order == calls[requests[k].call].order
            signed == SignedBy(requests[k].call)
        IN  /\ \A field \in DOMAIN order : body[field] = order[field]
            /\ DOMAIN body = DOMAIN order \cup {"signature", "signature_timestamp"}
            /\ body.signature = signed.signature
            /\ body.signature_timestamp = signed.message.timestamp
            /\ signed.message.timestamp = calls[requests[k].call].start
            /\ signed.message.size = toQuantums(body.size, 8)
            /\ body.hasPrice => signed.message.price = toQuantums(body.price, 8)

C15_Witness ==
    \E k \in OrderRequests :
        /\ requests[k].body.hasPrice
        /\ requests[k].body.price = <<"1", ".", "5">>
        /\ requests[k].body.signature_timestamp > 0
        /\ SignedBy(requests[k].call).message.price
              = <<"1", "5", "0", "0", "0", "0", "0", "0", "0">>

(***************************************************************************)
(* Claims checked under SpecClock.                                         *)
(***************************************************************************)
AuthSignatures == {k \in 1..Len(signatures) : signatures[k].kind = "Request"}

\* C16: for every auth request, signed when the clock reads now (ms), the
\* signed timestamp is floor(now / 1000) and the signed expiration is
\* exactly timestamp + 604800 seconds.
C16_AuthTimestampAndExpiration ==
    \A k \in AuthSignatures :
        LET message == signatures[k].message
            start == calls[signatures[k].call].start
        IN  /\ message.timestamp * 1000 <= start
            /\ start < (message.timestamp + 1) * 1000
            /\ message.expiration = message.timestamp + 604800

C16_Witness ==
    \E k \in AuthSignatures :
        /\ calls[signatures[k].call].start = 1999
        /\ signatures[k].message.timestamp = 1
        /\ signatures[k].message.expiration = 604801

AuthRequests == {k \in 1..Len(requests) : requests[k].path = "/auth"}

\* C17: every auth request carries the values that were signed: its
\* PARADEX-TIMESTAMP and PARADEX-SIGNATURE-EXPIRATION headers are the
\* timestamp and expiration of the signed Request message, its
\* PARADEX-STARKNET-ACCOUNT header is the address the hash was computed
\* for, its PARADEX-STARKNET-SIGNATURE header is the signature of that
\* message, and its body is the empty JSON object.
C17_AuthHeadersCarrySignedValues ==
    \A k \in AuthRequests :
        LET headers == requests[k].headers
            signed == SignedBy(requests[k].call)
            signature == headers["PARADEX-STARKNET-SIGNATURE"]
        IN  /\ AllDigits(headers["PARADEX-TIMESTAMP"])
            /\ DecimalValue(headers["PARADEX-TIMESTAMP"])
                  = signed.message.timestamp
            /\ AllDigits(headers["PARADEX-SIGNATURE-EXPIRATION"])
            /\ DecimalValue(headers["PARADEX-SIGNATURE-EXPIRATION"])
                  = signed.message.expiration
            /\ signature = signed.signature
            /\ signature.hash.typedData.message = signed.message
            /\ signature.hash.address = headers["PARADEX-STARKNET-ACCOUNT"]
            /\ signature.key = calls[requests[k].call].account.privateKey
            /\ headers["PARADEX-STARKNET-ACCOUNT"]
                  = calls[requests[k].call].account.address
            /\ requests[k].body = "{}"

C17_Witness ==
    \E k \in AuthRequests :
        /\ requests[k].headers["PARADEX-TIMESTAMP"] = <<"1">>
        /\ requests[k].headers["PARADEX-SIGNATURE-EXPIRATION"]
              = <<"6", "0", "4", "8", "0", "1">>
        /\ requests[k].headers["PARADEX-STARKNET-ACCOUNT"] = "0xB"

(***************************************************************************)
(* More claims checked under SpecSign.                                     *)
(***************************************************************************)
\* the signatures that were produced, and went out with a request
Produced == {k \in 1..Len(signatures) : ~signatures[k].threw}

\* C18: a signature is never reused: two requests composed by separate
\* invocations (two openOrder calls, or two authenticate calls) sign
\* messages that differ in their embedded timestamp, so that no two
\* requests sent carry the same signature.
C18_SignaturesAreNeverReused ==
    \A j, k \in Produced :
        (j # k /\ signatures[j].kind = signatures[k].kind) =>
            /\ signatures[j].message.timestamp # signatures[k].message.timestamp
            /\ signatures[j].signature # signatures[k].signature

DomainFields == <<"name", "chainId", "version">>

PrimaryFields(kind) ==
    IF kind = "Request"
    THEN <<"method", "path", "body", "timestamp", "expiration">>
    ELSE <<"timestamp", "market", "side", "orderType", "size", "price">>

Names(fields) == [i \in 1..Len(fields) |-> fields[i].name]

\* C20: every typed message built has the domain {name: "Paradex",
\* chainId: the configured chain id, version: "1"}, the StarkNetDomain type
\* [name, chainId, version] and a primary type whose fields are in the
\* fixed order Request = [method, path, body, timestamp, expiration],
\* Order = [timestamp, market, side, orderType, size, price]; the builders
\* pass the message values through unchanged.
C20_TypedDataShape ==
    \A k \in 1..Len(signatures) :
        LET typedData == signatures[k].typedData
            config == calls[signatures[k].call].config
        IN  /\ typedData.domain = [name |-> "Paradex",
                                   chainId |-> config.starknet.chainId,
                                   version |-> "1"]
            /\ typedData.primaryType = signatures[k].kind
            /\ DOMAIN typedData.types = {"StarkNetDomain", typedData.primaryType}
            /\ Names(typedData.types["StarkNetDomain"]) = DomainFields
            /\ Names(typedData.types[typedData.primaryType])
                  = PrimaryFields(signatures[k].kind)
            /\ \A i \in 1..Len(typedData.types[typedData.primaryType]) :
                  typedData.types[typedData.primaryType][i].type = "felt"
            /\ typedData.message = signatures[k].message
            /\ DOMAIN typedData.message
                  = {PrimaryFields(signatures[k].kind)[i] : i \in 1..Len(PrimaryFields(signatures[k].kind))}

C20_Witness ==
    /\ \E k \in 1..Len(signatures) :
          /\ signatures[k].kind = "Request"
          /\ signatures[k].typedData.message.path = "/v1/auth"
    /\ \E k \in 1..Len(signatures) :
          /\ signatures[k].kind = "Order"
          /\ signatures[k].typedData.message.side = "1"
          /\ signatures[k].typedData.domain.chainId
                = encodeShortString("PRIVATE_SN_PARACLEAR_MAINNET")

\* the strings request k carries in its URL, its headers and its body; the
\* other values it carries are the signature (the pair (r, s), which the
\* model writes as the term of what was signed and the key that signed),
\* the timestamps and the bearer token
StringsSent(k) ==
    {requests[k].method, requests[k].path,
     calls[requests[k].call].config.apiBaseUrl}
    \cup IF requests[k].path = "/auth"
         THEN {requests[k].headers["PARADEX-STARKNET-ACCOUNT"]}
         ELSE {requests[k].body.market, requests[k].body.type,
               requests[k].body.side}

HeadersSent(k) ==
    IF requests[k].path = "/auth"
    THEN {"Accept", "PARADEX-STARKNET-ACCOUNT", "PARADEX-STARKNET-SIGNATURE",
          "PARADEX-TIMESTAMP", "PARADEX-SIGNATURE-EXPIRATION", "Content-Type"}
    ELSE {"Accept", "Authorization", "Content-Type"}

\* C21: the private key is never transmitted: no request built by
\* authenticate or openOrder has it in its URL, headers or body; the
\* address, the signature and the timestamps are all that leaves.
C21_PrivateKeyIsNeverSent ==
    \A k \in 1..Len(requests) :
        /\ \A account \in Accounts : account.privateKey \notin StringsSent(k)
        /\ DOMAIN requests[k].headers = HeadersSent(k)
        /\ requests[k].path = "/auth" =>
              /\ requests[k].body = "{}"
              /\ requests[k].headers["PARADEX-STARKNET-SIGNATURE"]
                    = SignedBy(requests[k].call).signature
        /\ requests[k].path = "/orders" =>
              /\ DOMAIN requests[k].body
                    = DOMAIN calls[requests[k].call].order
                      \cup {"signature", "signature_timestamp"}
              /\ requests[k].body.signature
                    = SignedBy(requests[k].call).signature

C21_Witness ==
    /\ \E k \in 1..Len(requests) :
          /\ requests[k].path = "/auth"
          /\ requests[k].headers["PARADEX-STARKNET-ACCOUNT"] = "0xB"
          /\ requests[k].headers["PARADEX-STARKNET-SIGNATURE"].key = "key of 0xB"
    /\ \E k \in 1..Len(requests) : requests[k].path = "/orders"

(***************************************************************************)
(* Claims checked under SpecRisk.                                          *)
(***************************************************************************)
AnalyzeCalls == {i \in 1..Len(calls) : calls[i].fn = "analyzeMarket"}

\* C22: maxLeverage is never negative (it is clamped at 0 when the
\* volatility exceeds 20%), and so maxPositionValue is never negative for
\* a non-negative account value.
C22_LeverageIsNeverNegative ==
    \A i \in AnalyzeCalls :
        /\ calls[i].ret.positionLimits.maxLeverage >= 0
        /\ calls[i].accountValue >= 0 =>
              calls[i].ret.positionLimits.maxPositionValue >= 0

\* C23: for every volatility >= 0, maxLeverage is min(20, 20 * (1 - 5 *
\* volatility)) and never exceeds 20 (19 at volatility 0.01, 10 at 0.10),
\* and maxPositionValue is accountValue * maxLeverage.
C23_LeverageFormula ==
    \A i \in AnalyzeCalls :
        LET limits == calls[i].ret.positionLimits
            volatility == calls[i].volatility
        IN  volatility >= 0 =>
                /\ limits.maxLeverage = 200000 - 100 * volatility
                /\ limits.maxLeverage <= 200000
                /\ volatility = 100 => limits.maxLeverage = 190000
                /\ volatility = 1000 => limits.maxLeverage = 100000
                /\ limits.maxPositionValue
                      = calls[i].accountValue * limits.maxLeverage

C23_Witness ==
    \E i \in AnalyzeCalls :
        /\ calls[i].volatility = 1000
        /\ calls[i].accountValue = 10000
        /\ calls[i].ret.positionLimits.maxLeverage = 100000
        /\ calls[i].ret.positionLimits.maxPositionValue = 1000000000

\* C24: the risk band is a total function of the volatility with half-open
\* thresholds: below 0.02 LOW (cap 50% of the account value, stop-loss 2),
\* from 0.02 and below 0.05 MEDIUM (30%, stop-loss 5), from 0.05 HIGH (10%,
\* stop-loss 10); exactly one band applies to every volatility.
C24_RiskBandThresholds ==
    \A i \in AnalyzeCalls :
        LET band == calls[i].ret.positionLimits.riskBand
            volatility == calls[i].volatility
            account == calls[i].accountValue
        IN  /\ volatility < 200 =>
                  band = [level |-> "LOW", maxPositionSize |-> account * 5000,
                          stopLossPercent |-> 2]
            /\ (200 <= volatility /\ volatility < 500) =>
                  band = [level |-> "MEDIUM", maxPositionSize |-> account * 3000,
                          stopLossPercent |-> 5]
            /\ volatility >= 500 =>
                  band = [level |-> "HIGH", maxPositionSize |-> account * 1000,
                          stopLossPercent |-> 10]
            /\ band.level \in {"LOW", "MEDIUM", "HIGH"}

C24_Witness ==
    \E i \in AnalyzeCalls :
        /\ calls[i].volatility = 200
        /\ calls[i].accountValue = 10000
        /\ calls[i].ret.positionLimits.riskBand
              = [level |-> "MEDIUM", maxPositionSize |-> 30000000,
                 stopLossPercent |-> 5]

\* C25: recommendedPositionSize is min(riskBand.maxPositionSize, 0.25 *
\* maxPositionValue) for every input, so it exceeds neither the cap of the
\* band nor a quarter of the maximum position value.
C25_RecommendedSizeIsTheMinimum ==
    \A i \in AnalyzeCalls :
        LET limits == calls[i].ret.positionLimits
            size == limits.recommendedPositionSize
        IN  /\ size <= limits.riskBand.maxPositionSize
            /\ 4 * size <= limits.maxPositionValue
            /\ \/ size = limits.riskBand.maxPositionSize
               \/ 4 * size = limits.maxPositionValue

C25_Witness ==
    \E i \in AnalyzeCalls :
        /\ calls[i].volatility = 1990
        /\ calls[i].accountValue = 10000
        /\ calls[i].ret.positionLimits.riskBand.maxPositionSize = 10000000
        /\ calls[i].ret.positionLimits.maxPositionValue = 10000000
        /\ calls[i].ret.positionLimits.recommendedPositionSize = 2500000

\* C26: the confidence analyzeMarket returns lies in [0, 1] for every
\* market snapshot, after all adjustments.
C26_ConfidenceIsInUnitInterval ==
    \A i \in AnalyzeCalls :
        /\ 0 <= calls[i].ret.confidence
        /\ calls[i].ret.confidence <= 10000

Buys(c) == c.momentum > 200 /\ c.fundingRate < 10

Sells(c) == c.momentum < -200 /\ c.fundingRate > 10

\* the confidence of the scoring rule, counted in 1/10000
RuleConfidence(c) ==
    LET magnitude == IF c.momentum < 0 THEN 0 - c.momentum ELSE c.momentum
        base == IF Buys(c) \/ Sells(c)
                THEN (IF 5 * magnitude < 8000 THEN 5 * magnitude ELSE 8000)
                ELSE 5000
        volume == IF c.volumeTrend > 1000 THEN base + 1000 ELSE base
        volatile == IF c.volatility > 200 THEN volume - 2000 ELSE volume
    IN  IF c.ret.positionLimits.riskBand.level = "HIGH"
        THEN (volatile * 8) \div 10 ELSE volatile

\* C27: the recommendation is BUY with base confidence min(0.8, 5 *
\* |momentum|) iff momentum > 0.02 and fundingRate < 0.001, SELL with the
\* same base iff momentum < -0.02 and fundingRate > 0.001, otherwise HOLD
\* with base 0.5; then, in this order, +0.1 if the volume trend is above
\* 0.1, -0.2 if the volatility is above 0.02, and x0.8 if the risk band is
\* HIGH.  The value returned is that confidence at two decimals.
C27_ScoringRule ==
    \A i \in AnalyzeCalls :
        LET c == calls[i]
        IN  /\ c.ret.recommendation = "BUY" <=> Buys(c)
            /\ c.ret.recommendation = "SELL" <=> Sells(c)
            /\ c.ret.recommendation = "HOLD" <=> ~Buys(c) /\ ~Sells(c)
            /\ c.ret.score = RuleConfidence(c)
            /\ c.ret.confidence - RuleConfidence(c) \in -50..50
            /\ c.ret.confidence % 100 = 0

C27_Witness ==
    \E i \in AnalyzeCalls :
        /\ calls[i].momentum = 2000 /\ calls[i].fundingRate = 5
        /\ calls[i].volumeTrend = 1001 /\ calls[i].volatility = 500
        /\ calls[i].ret.recommendation = "BUY"
        /\ calls[i].ret.confidence = 5600

(***************************************************************************)
(* Claims checked under SpecCancel.                                        *)
(***************************************************************************)
\* C29: the cancel-order action reports success ("has been canceled
\* successfully") only if the exchange answered the DELETE /orders/{id}
\* request with a 2xx status; when the exchange rejects the cancellation
\* or the request fails, the action reports failure.
C29_CancelSuccessMeansCancelled ==
    \A h \in CancelHandlers :
        (calls[h].pc = "returned" /\ calls[h].orderId # <<>>) =>
            /\ calls[h].success => calls[h + 1].outcome \in {"ok", "empty"}
            /\ calls[h + 1].outcome \in Failures => ~calls[h].success

(***************************************************************************)
(* More claims checked under SpecAgent.                                    *)
(***************************************************************************)
SuccessfulAuths == {id \in AuthCalls : calls[id].pc = "returned"}

\* C30: when authentications overlap, the token held once all of them have
\* completed is the one returned by the most recently started successful
\* authentication: the response of an older authentication never
\* overwrites the token obtained by a newer one.
C30_NewestAuthenticationWins ==
    (\A id \in AuthCalls : calls[id].pc # "awaiting") =>
        \A id \in SuccessfulAuths :
            (\A other \in SuccessfulAuths : other <= id)
                => jwtToken = calls[id].jwt

LoggedIn == \E id \in CallsFrom({"login"}) : calls[id].pc = "returned"

\* C31: after paradexLogin has succeeded the account's jwtToken is a
\* non-empty token in every reachable state: no refresh, successful or
\* failed, sets it to undefined or to an empty value, because authenticate
\* raises instead of returning when the response has no jwt_token.
C31_TokenStaysNonEmpty ==
    LoggedIn =>
        /\ jwtToken # <<>>
        /\ \A id \in AuthCalls : calls[id].pc = "returned" => calls[id].jwt # <<>>

\* refreshes of every outcome have been answered after the login
C31_Witness ==
    /\ LoggedIn
    /\ jwtToken # <<>>
    /\ \E id \in CallsFrom({"interval", "debounce"}) : calls[id].outcome = "empty"
    /\ \E id \in CallsFrom({"interval", "debounce"}) : calls[id].outcome \in Failures

(***************************************************************************)
(* Claims checked under SpecLimiter.                                       *)
(***************************************************************************)
Admitted == {i \in Wrapped : calls[i].admitted}

Denied == Wrapped \ Admitted

\* the windows of the limiter, at the present reading of the clock
MinuteElapsed == now - rateLimiter.lastMinuteTimestamp >= MinuteMs

DayElapsed == now - rateLimiter.lastDayTimestamp >= DayMs

\* the wrapper runs in this step, and admits or denies
Admits ==
    /\ Len(calls') > Len(calls)
    /\ calls'[Len(calls) + 1].origin = "wrapper"
    /\ calls'[Len(calls) + 1].admitted

Denies ==
    /\ Len(calls') > Len(calls)
    /\ calls'[Len(calls) + 1].origin = "wrapper"
    /\ ~calls'[Len(calls) + 1].admitted

\* the minute window of the limiter began in the period the log covers
MinuteIsLogged ==
    rateLimiter.lastMinuteTimestamp
        \in {0} \cup {calls[i].start : i \in Wrapped}

\* C32: the counters are bounded in every reachable state,
\* 0 <= requestsThisMinute <= 25 and 0 <= requestsToday <= 950; each
\* admitted action increments both counters by exactly one (counted from 0
\* when its window has elapsed), and the check and the increment are one
\* step: the minute counter is at every moment the number of actions
\* admitted since the minute window began.
C32_CountersAreBounded ==
    /\ [](/\ rateLimiter.requestsThisMinute \in 0..REQUESTS_PER_MINUTE
          /\ rateLimiter.requestsToday \in 0..REQUESTS_PER_DAY
          /\ MinuteIsLogged =>
                rateLimiter.requestsThisMinute
                    = Cardinality({i \in Admitted :
                          calls[i].start >= rateLimiter.lastMinuteTimestamp}))
    /\ [][Admits =>
            /\ Cardinality(Wrapped') = Cardinality(Wrapped) + 1
            /\ rateLimiter'.requestsThisMinute
                 = (IF MinuteElapsed THEN 0 ELSE rateLimiter.requestsThisMinute) + 1
            /\ rateLimiter'.requestsToday
                 = (IF DayElapsed THEN 0 ELSE rateLimiter.requestsToday) + 1]_vars

\* late on a busy day the day counter has reached its limit by actions
\* admitted in a new minute window, and an action has been denied
C32_Witness ==
    /\ rateLimiter.requestsToday = REQUESTS_PER_DAY
    /\ \E i \in Admitted : calls[i].start = DayMs - 90000
    /\ Denied # {}

\* a counter is at its limit and its window has not elapsed
AtLimit ==
    \/ /\ rateLimiter.requestsThisMinute = REQUESTS_PER_MINUTE
       /\ ~MinuteElapsed
    \/ /\ rateLimiter.requestsToday = REQUESTS_PER_DAY
       /\ ~DayElapsed

\* a denial leaves the log with the wrapper's failure result as its last
\* record, and the requests as they were
DeniedWithoutHandler ==
    /\ Len(calls') = Len(calls) + 1
    /\ calls'[Len(calls')].pc = "returned"
    /\ ~calls'[Len(calls')].success
    /\ requests' = requests
    /\ signatures' = signatures

\* C33, as stated: when the rate limiter denies an action (either counter
\* at its limit and its window not elapsed), the wrapped handler is not
\* invoked, no HTTP request results from the action, the counters are left
\* unchanged, and the caller receives a failure result rather than an
\* exception.
C33_DenialLeavesCountersUnchanged ==
    [][Denies =>
         /\ AtLimit
         /\ DeniedWithoutHandler
         /\ rateLimiter'.requestsThisMinute = rateLimiter.requestsThisMinute
         /\ rateLimiter'.requestsToday = rateLimiter.requestsToday]_vars

\* C33, amended: the wrapper denies exactly when a counter is at its limit
\* and its window has not elapsed; a denial invokes no handler, sends no
\* HTTP request, returns a failure result and increments no counter, but
\* the counter whose window has elapsed is reset to 0 with its window.
C33_DenialIncrementsNothing ==
    [][(Admits \/ Denies) =>
         /\ Denies <=> AtLimit
         /\ Denies =>
              /\ DeniedWithoutHandler
              /\ rateLimiter'.requestsThisMinute
                   = IF MinuteElapsed THEN 0 ELSE rateLimiter.requestsThisMinute
              /\ rateLimiter'.requestsToday
                   = IF DayElapsed THEN 0 ELSE rateLimiter.requestsToday
              /\ rateLimiter'.lastMinuteTimestamp
                   = IF MinuteElapsed THEN now
                     ELSE rateLimiter.lastMinuteTimestamp
              /\ rateLimiter'.lastDayTimestamp
                   = IF DayElapsed THEN now ELSE rateLimiter.lastDayTimestamp]_vars

\* an action has been denied at the day limit, in a minute that began with
\* that denial
C33_Witness ==
    /\ rateLimiter.requestsToday = REQUESTS_PER_DAY
    /\ rateLimiter.requestsThisMinute = 0
    /\ \E i \in Denied : calls[i].start = rateLimiter.lastMinuteTimestamp
    /\ \E i \in Admitted : calls[i].start < rateLimiter.lastMinuteTimestamp

\* the handlers executed in the interval of the given length that ends now
ExecutedWithin(length) ==
    {i \in Admitted : calls[i].start > now - length}

\* C34: the rate limiter enforces its limit over time: in any interval of
\* 60 seconds at most 25 action handlers are executed, and in any interval
\* of 24 hours at most 950, whatever the arrival times of the actions.
\* (Stated for the intervals that end at the present time, of the handlers
\* the log holds.)
C34_LimitHoldsOverAnyInterval ==
    /\ Cardinality(ExecutedWithin(MinuteMs)) <= REQUESTS_PER_MINUTE
    /\ Cardinality(ExecutedWithin(DayMs)) <= REQUESTS_PER_DAY

(***************************************************************************)
(* Claims checked under SpecCache.                                         *)
(***************************************************************************)
\* getCachedMarkets is invoked in this step
CachedIsInvoked ==
    /\ Len(calls') > Len(calls)
    /\ calls'[Len(calls) + 1].fn = "getCachedMarkets"

\* an entry for the key exists and was stored less than 30000 ms ago
StoredLately(key) ==
    /\ key \in DOMAIN marketCache
    /\ now - marketCache[key].timestamp < CACHE_DURATION

\* listAvailableMarkets, invoked as number id, returns in this step
FetchSucceeds(id) ==
    /\ id \in 2..Len(calls)
    /\ calls[id].fn = "listAvailableMarkets"
    /\ calls[id].pc = "awaiting"
    /\ calls'[id].pc = "returned"

FetchFails(id) ==
    /\ id \in 2..Len(calls)
    /\ calls[id].fn = "listAvailableMarkets"
    /\ calls[id].pc = "awaiting"
    /\ calls'[id].pc = "threw"

\* C35: getCachedMarkets returns a cached entry without issuing an HTTP
\* request iff an entry for that key exists and was stored less than
\* 30000 ms ago; otherwise it fetches, and only a successful fetch replaces
\* the entry (a failed fetch propagates the error and leaves the cache
\* unchanged).  Data served from the cache is never 30 s old or older.
C35_CacheFreshness ==
    /\ [](\A i \in CachedCalls :
              calls[i].served = "cache" =>
                  /\ calls[i].start - calls[i].storedAt < CACHE_DURATION
                  /\ calls[i].start >= calls[i].storedAt)
    /\ [][/\ CachedIsInvoked =>
               LET r == calls'[Len(calls) + 1]
               IN  /\ marketCache' = marketCache
                   /\ IF StoredLately(r.key)
                      THEN /\ r.pc = "returned" /\ r.served = "cache"
                           /\ r.data = marketCache[r.key].data
                           /\ r.storedAt = marketCache[r.key].timestamp
                           /\ Len(calls') = Len(calls) + 1
                           /\ requests' = requests
                      ELSE /\ r.pc = "awaiting"
                           /\ Len(requests') = Len(requests) + 1
                           /\ requests'[Len(requests')].path = "/markets"
                           /\ requests'[Len(requests')].call = Len(calls')
          /\ marketCache' # marketCache =>
               \E id \in 2..Len(calls) :
                   /\ FetchSucceeds(id)
                   /\ marketCache'
                        = MapSet(marketCache, calls[id - 1].key,
                                 [data |-> <<id>>, timestamp |-> now])
          /\ \A id \in 2..Len(calls) :
               /\ FetchSucceeds(id) =>
                    /\ calls'[id - 1].pc = "returned"
                    /\ calls'[id - 1].data = <<id>>
                    /\ marketCache'[calls[id - 1].key]
                         = [data |-> <<id>>, timestamp |-> now]
               /\ FetchFails(id) =>
                    /\ calls'[id - 1].pc = "threw"
                    /\ calls'[id - 1].error = calls'[id].error
                    /\ marketCache' = marketCache]_vars

\* a fetch that found the entry of its key stale has failed and has left
\* the entry as it was
C35_Witness ==
    \E i \in CachedCalls :
        /\ calls[i].pc = "threw"
        /\ calls[i].key \in DOMAIN marketCache
        /\ calls[i].start - marketCache[calls[i].key].timestamp >= CACHE_DURATION
        /\ \E j \in CachedCalls :
               /\ calls[j].served = "fetch"
               /\ marketCache[calls[i].key].data = calls[j].data

\* the upstream requests for a key that are in flight
InFlight(key) ==
    {id \in Awaiting({"cache"}) : calls[id - 1].key = key}

\* C36: for each cache key at most one upstream markets request is in
\* flight at a time: concurrent getCachedMarkets calls that miss on the
\* same key share a single fetch.
C36_OneFetchPerKey ==
    \A market \in CacheMarkets : Cardinality(InFlight(CacheKey(market))) <= 1

(***************************************************************************)
(* Claims checked under SpecOrder.                                         *)
(***************************************************************************)
\* the invocations of the handler that reported an opened order
Placed == {h \in OpenOrderHandlers : calls[h].pc = "returned" /\ calls[h].success}

\* getOrder(orderId) of memory.ts: orderStore.get(orderId), <<>> for
\* undefined
getOrder(orderId) ==
    IF orderId \in DOMAIN orderStore THEN <<orderStore[orderId]>> ELSE <<>>

\* C37: every order successfully placed through the open-order action
\* stays retrievable by getOrder under the order id reported to the user,
\* with its own data, after any number of later orders: two distinct
\* placed orders never share a history key, so a later order never
\* overwrites an earlier order's record.
C37_PlacedOrdersStayRetrievable ==
    /\ \A h \in Placed :
          /\ getOrder(calls[h].orderId) # <<>>
          /\ getOrder(calls[h].orderId)[1].response = calls[h].result
          /\ getOrder(calls[h].orderId)[1].originalRequest = calls[h].text
    /\ \A h1, h2 \in Placed : h1 # h2 => calls[h1].orderId # calls[h2].orderId

\* openOrder, invoked as number id, returns in this step
OrderSucceeds(id) ==
    /\ id \in 1..Len(calls)
    /\ calls[id].fn = "openOrder"
    /\ calls[id].pc = "awaiting"
    /\ calls'[id].pc = "returned"

\* the invocations of openOrder that threw, in their validation or on the
\* answer of the exchange
RejectedOrders ==
    {id \in 1..Len(calls) : calls[id].fn = "openOrder" /\ calls[id].pc = "threw"}

\* C38: in the open-order action the order-history write and the debounced
\* token refresh happen only after openOrder has returned successfully: an
\* order that is rejected by validation or by the exchange writes no
\* history record and schedules no refresh.
C38_HistoryAndRefreshFollowSuccess ==
    /\ [](/\ DOMAIN orderStore = {calls[h].orderId : h \in Placed}
          /\ Len(triggers) = Cardinality(Placed)
          /\ \A id \in RejectedOrders :
                /\ \A key \in DOMAIN orderStore : orderStore[key].response # <<id>>
                /\ \A h \in OpenOrderHandlers :
                      calls[h].awaits = id => ~calls[h].success)
    /\ [][(orderStore' # orderStore \/ triggers' # triggers \/ timers' # timers)
             => \E id \in 1..Len(calls) :
                    /\ OrderSucceeds(id)
                    /\ Len(triggers') = Len(triggers) + 1
                    /\ orderStore'[ResultOrderId(calls'[id], id)].response = <<id>>]_vars

\* an order has been placed, stored and followed by a scheduled refresh,
\* and an order has been rejected by the exchange
C38_Witness ==
    /\ Placed # {}
    /\ timers # {}
    /\ \E id \in RejectedOrders : calls[id].outcome \in Failures

\* the invocations of the handler that went as far as calling openOrder
ReachedOpenOrder ==
    {h \in OpenOrderHandlers :
        calls[h].awaits # 0 /\ calls[calls[h].awaits].fn = "openOrder"}

\* the market list and the market of the symbol, as the cache holds them
Listed(symbol) ==
    /\ "all_markets" \in DOMAIN marketCache
    /\ \E i \in 1..Len(marketCache["all_markets"].data) :
          marketCache["all_markets"].data[i].symbol = symbol

KnownLastPrice(symbol) ==
    IF symbol \in DOMAIN marketCache
       /\ marketCache[symbol].data # <<>>
       /\ marketCache[symbol].data[1].hasLast
    THEN DecimalValue(marketCache[symbol].data[1].last_price)
    ELSE 0

\* the guards of the handler, on what the user asked for
GuardsPassed(text) ==
    /\ text.matched
    /\ Listed(MarketSymbol(text.baseToken))
    /\ text.orderType = "limit" =>
          /\ text.limitPrice # <<>>
          /\ LET requested == DecimalValue(text.limitPrice)
                 last == KnownLastPrice(MarketSymbol(text.baseToken))
             IN  last # 0 =>
                     /\ 10 * (requested - last) <= last
                     /\ 10 * (last - requested) <= last

\* C39: the open-order action sends POST /orders only after all its guards
\* passed: the derived market symbol is in the market list, and for a LIMIT
\* order a price was given and, when a last price is known, the requested
\* price deviates from it by at most 10%; when a guard fails no order is
\* signed or sent and nothing is stored.
C39_OrdersPassTheGuards ==
    /\ \A h \in ReachedOpenOrder : GuardsPassed(calls[h].text)
    /\ \A k \in 1..Len(requests) :
          requests[k].path = "/orders" =>
              \E h \in ReachedOpenOrder : calls[h].awaits = requests[k].call
    /\ \A k \in 1..Len(signatures) :
          \E h \in ReachedOpenOrder : calls[h].awaits = signatures[k].call
    /\ \A key \in DOMAIN orderStore :
          \E h \in ReachedOpenOrder : orderStore[key].response = <<calls[h].awaits>>

\* a LIMIT order within 10% of the known last price has been sent, and a
\* LIMIT order that deviates more has been refused
C39_Witness ==
    /\ \E h \in ReachedOpenOrder :
          /\ calls[h].text.orderType = "limit"
          /\ KnownLastPrice(calls[h].details.market) # 0
          /\ \E k \in 1..Len(requests) :
                requests[k].path = "/orders" /\ requests[k].call = calls[h].awaits
    /\ \E h \in OpenOrderHandlers \ ReachedOpenOrder :
          /\ calls[h].pc = "returned"
          /\ calls[h].text.limitPrice = <<"1", "2", "0">>

====
